---- MODULE Spec2Model ----
(***************************************************************************)
(* A model of the AI-Finance-Manager Django application: the login         *)
(* middleware (financial/middleware.py) and the analytics utilities        *)
(* (analytics/ml_utils/*.py) with the request handlers that call them      *)
(* (analytics/views.py).                                                   *)
(*                                                                         *)
(* Each subsystem has its own specification (SpecMiddleware, ...): its     *)
(* variables move, the variables of the other subsystems stay at their     *)
(* idle values.  Money is counted in whole rupees and comparisons between  *)
(* amounts are exact (cross-multiplied integers), where the code uses      *)
(* binary floating point.                                                  *)
(***************************************************************************)
EXTENDS Integers, Sequences, FiniteSets, TLC

VARIABLES
    \* ---- RequireLoginMiddleware (financial/middleware.py)
    user_is_authenticated,  \* request.user.is_authenticated
    path_info,              \* request.path_info, a sequence of characters
    mw_response,            \* "pending" | "None" | "redirect_to_login"
    \* ---- TransactionCategorizer (analytics/ml_utils/transaction_categorizer.py)
    cz_self,                \* the categorizer object: [model, categories]
    model_file,             \* the joblib file: "NoFile" | "Corrupt" | [model, categories]
    cz_description,         \* the description handed to predict
    cz_result,              \* what predict returned: <<category_id, category_name, confidence>>
    cz_pc,                  \* "call" (predict about to run) | "done"
    \* ---- auto_categorize_transactions (analytics/views.py) and its tables
    transactions,           \* Transaction table: id -> [user, category, ai_categorized, description]
    enable_ai_categorization, \* UserProfile.enable_ai_categorization of each user
    ac_user,                \* request.user of the last request
    ac_response,            \* the JsonResponse of the last request
    \* ---- SpendingAnalyzer.detect_spending_anomalies and the anomaly settings
    anomaly_min_amount,     \* UserProfile.anomaly_min_amount of each user
    anomaly_detection_sensitivity, \* UserProfile.anomaly_detection_sensitivity, in tenths
    an_transactions,        \* the transactions handed to the analyzer
    an_user,                \* SpendingAnalyzer.user (NoUser for None)
    an_sensitivity,         \* the sensitivity argument, in tenths (NoSensitivity for None)
    an_result,              \* the list of ids detect_spending_anomalies returned
    an_pc,                  \* "idle" | "detected" | "settings"
    \* ---- SpendingAnalyzer.predict_monthly_spending
    fc_transactions,        \* the transactions given: [transaction_type, amount, month]
    fc_months_ahead,        \* months_ahead
    fc_result,              \* the 'predictions' list returned
    fc_pc,                  \* "call" | "done"
    \* ---- BudgetAnalyzer.generate_budget_recommendations
    br_transactions,        \* the transactions given: [transaction_type, category, amount, date]
    br_budgets,             \* current_budgets: [category, amount]
    br_result,              \* the dict returned: [success, recommendations]
    br_pc,                  \* "call" | "done"
    \* ---- BudgetAnalyzer.get_recommendations
    gr_user,                \* self.user of the analyzer, or NoUser
    gr_transactions,        \* the table Transaction
    gr_budgets,             \* the table Budget
    gr_result,              \* the list returned
    gr_pc,                  \* "call" | "done"
    \* ---- BudgetAnalyzer.analyze_budget_performance
    bp_budget,              \* the budget given, or NoBudget
    bp_transactions,        \* the transactions given
    bp_result,              \* the dict returned
    bp_pc,                  \* "call" | "done"
    \* ---- the analytics handlers of one user, and the table SpendingAnomaly
    enable_ai_insights,     \* UserProfile.enable_ai_insights of request.user
    sa_records,             \* SpendingAnomaly rows of the user, row i has id i
    sa_response,            \* what the last request returned
    \* ---- transaction_create / transaction_delete (financial/views.py)
    balance,                \* Account.balance of each account
    lg_transactions,        \* the table Transaction: [id, account, to_account, transaction_type, amount]
    lg_next_id,             \* the id the next row gets
    lg_last,                \* the last request: [op, tx, before] (before: the balances
                            \* before the creation a deletion undoes)
    \* ---- savings_goal_add_contribution (financial/views.py)
    goal_current_amount,    \* SavingsGoal.current_amount of the goal
    sg_balance,             \* Account.balance of each account of the user
    sg_transactions,        \* the rows of Transaction, in the order created
    sg_request,             \* the last request: [n, method, amount, account, success]
    \* ---- TransactionCategorizer.train called on an object
    tr_self,                \* the categorizer object of the last call, after it
    tr_call,                 \* the last call: [n, self, file, transactions,
                            \* force_retrain, ret]
    \* ---- category_create, category_edit (financial/views.py)
    category_table,         \* the rows of Category: row i has id i
    ct_request              \* the last request: [handler, user, id, name, type, success]

vars_mw == <<user_is_authenticated, path_info, mw_response>>
vars_cz == <<cz_self, model_file, cz_description, cz_result, cz_pc>>

vars_ac == <<transactions, enable_ai_categorization, ac_user, ac_response>>

vars_an == <<anomaly_min_amount, anomaly_detection_sensitivity, an_transactions,
             an_user, an_sensitivity, an_result, an_pc>>

vars_fc == <<fc_transactions, fc_months_ahead, fc_result, fc_pc>>

vars_br == <<br_transactions, br_budgets, br_result, br_pc>>

vars_gr == <<gr_user, gr_transactions, gr_budgets, gr_result, gr_pc>>

vars_bp == <<bp_budget, bp_transactions, bp_result, bp_pc>>

vars_sa == <<enable_ai_insights, sa_records, sa_response>>

vars_lg == <<balance, lg_transactions, lg_next_id, lg_last>>

vars_sg == <<goal_current_amount, sg_balance, sg_transactions, sg_request>>

vars_tr == <<tr_self, tr_call>>

vars_ct == <<category_table, ct_request>>

vars == <<vars_mw, vars_cz, vars_ac, vars_an, vars_fc, vars_br, vars_gr, vars_bp, vars_sa,
          vars_lg, vars_sg, vars_tr, vars_ct>>

\* What the actions of one subsystem leave alone: the other subsystems.
not_mw == <<vars_cz, vars_ac, vars_an, vars_fc, vars_br, vars_gr, vars_bp, vars_sa, vars_lg, vars_sg, vars_tr, vars_ct>>
not_cz == <<vars_mw, vars_ac, vars_an, vars_fc, vars_br, vars_gr, vars_bp, vars_sa, vars_lg, vars_sg, vars_tr, vars_ct>>
\* (the categorization handler writes the model file)
not_ac == <<vars_mw, cz_self, cz_description, cz_result, cz_pc, vars_an, vars_fc, vars_br, vars_gr, vars_bp, vars_sa, vars_lg, vars_sg, vars_tr, vars_ct>>
not_an == <<vars_mw, vars_cz, vars_ac, vars_fc, vars_br, vars_gr, vars_bp, vars_sa, vars_lg, vars_sg, vars_tr, vars_ct>>
not_fc == <<vars_mw, vars_cz, vars_ac, vars_an, vars_br, vars_gr, vars_bp, vars_sa, vars_lg, vars_sg, vars_tr, vars_ct>>
not_br == <<vars_mw, vars_cz, vars_ac, vars_an, vars_fc, vars_gr, vars_bp, vars_sa, vars_lg, vars_sg, vars_tr, vars_ct>>
not_gr == <<vars_mw, vars_cz, vars_ac, vars_an, vars_fc, vars_br, vars_bp, vars_sa, vars_lg, vars_sg, vars_tr, vars_ct>>
not_bp == <<vars_mw, vars_cz, vars_ac, vars_an, vars_fc, vars_br, vars_gr, vars_sa, vars_lg, vars_sg, vars_tr, vars_ct>>
not_sa == <<vars_mw, vars_cz, vars_ac, vars_an, vars_fc, vars_br, vars_gr, vars_bp, vars_lg, vars_sg, vars_tr, vars_ct>>
not_lg == <<vars_mw, vars_cz, vars_ac, vars_an, vars_fc, vars_br, vars_gr, vars_bp, vars_sa, vars_sg, vars_tr, vars_ct>>
not_sg == <<vars_mw, vars_cz, vars_ac, vars_an, vars_fc, vars_br, vars_gr, vars_bp, vars_sa, vars_lg, vars_tr, vars_ct>>
not_tr == <<vars_mw, vars_cz, vars_ac, vars_an, vars_fc, vars_br, vars_gr, vars_bp, vars_sa, vars_lg, vars_sg, vars_ct>>
not_ct == <<vars_mw, vars_cz, vars_ac, vars_an, vars_fc, vars_br, vars_gr, vars_bp, vars_sa, vars_lg, vars_sg, vars_tr>>

(***************************************************************************)
(* Strings as sequences of characters: str.startswith and concatenation.   *)
(***************************************************************************)
StartsWith(s, prefix) ==
    /\ Len(prefix) <= Len(s)
    /\ SubSeq(s, 1, Len(prefix)) = prefix

Slash == <<"/">>

seg_accounts  == <<"a","c","c","o","u","n","t","s">>
seg_login     == <<"l","o","g","i","n">>
seg_logout    == <<"l","o","g","o","u","t">>
seg_signup    == <<"s","i","g","n","u","p">>
seg_admin     == <<"a","d","m","i","n">>
seg_static    == <<"s","t","a","t","i","c">>
seg_media     == <<"m","e","d","i","a">>
seg_favicon   == <<"f","a","v","i","c","o","n",".","i","c","o">>
seg_dashboard == <<"d","a","s","h","b","o","a","r","d">>
seg_analytics == <<"a","n","a","l","y","t","i","c","s">>

Segments ==
    { seg_accounts, seg_login, seg_logout, seg_signup, seg_admin, seg_static,
      seg_media, seg_favicon, seg_dashboard, seg_analytics }

\* The longest request path drawn, in path segments.
MaxSegments == 2

\* "/a/b" for the segments a, b: every segment preceded by a slash.
RECURSIVE PathsOfDepth(_)
PathsOfDepth(n) ==
    IF n = 0 THEN { <<>> }
    ELSE { p \o Slash \o s : p \in PathsOfDepth(n - 1), s \in Segments }

\* The request paths: "/", and every "/a", "/a/", "/a/b", "/a/b/", ...
Paths ==
    { Slash } \cup
    UNION { { p, p \o Slash } : p \in UNION { PathsOfDepth(n) : n \in 1..MaxSegments } }

(***************************************************************************)
(* RequireLoginMiddleware                                                  *)
(***************************************************************************)
exempt_urls ==
    << Slash,                                                \* '/'
       Slash \o seg_accounts \o Slash \o seg_login \o Slash,   \* '/accounts/login/'
       Slash \o seg_accounts \o Slash \o seg_logout \o Slash,  \* '/accounts/logout/'
       Slash \o seg_accounts \o Slash \o seg_signup \o Slash,  \* '/accounts/signup/'
       Slash \o seg_admin \o Slash \o seg_login \o Slash,      \* '/admin/login/'
       Slash \o seg_admin \o Slash \o seg_logout \o Slash,     \* '/admin/logout/'
       Slash \o seg_static \o Slash,                           \* '/static/'
       Slash \o seg_media \o Slash,                            \* '/media/'
       Slash \o seg_favicon >>                                 \* '/favicon.ico'

\* process_request as a function of the request: None lets the request
\* through, anything else is the redirect to the login page.
process_request_result(is_authenticated, current_path) ==
    IF is_authenticated THEN "None"
    ELSE IF \E i \in 1..Len(exempt_urls) : StartsWith(current_path, exempt_urls[i])
         THEN "None"
         ELSE "redirect_to_login"

\* A request arrives: any user, any path.
mw_request ==
    /\ mw_response # "pending"
    /\ user_is_authenticated' \in BOOLEAN
    /\ path_info' \in Paths
    /\ mw_response' = "pending"
    /\ UNCHANGED not_mw

\* The middleware handles the request in flight.
process_request ==
    /\ mw_response = "pending"
    /\ mw_response' = process_request_result(user_is_authenticated, path_info)
    /\ UNCHANGED <<user_is_authenticated, path_info>>
    /\ UNCHANGED not_mw

InitMw ==
    /\ user_is_authenticated \in BOOLEAN
    /\ path_info \in Paths
    /\ mw_response = "pending"

IdleMw ==
    /\ user_is_authenticated = FALSE
    /\ path_info = Slash
    /\ mw_response = "None"

\* (the specification is assembled at the end of the module, after the idle
\* values of the other subsystems)

NextMiddleware ==
    \/ mw_request
    \/ process_request

(***************************************************************************)
(* TransactionCategorizer                                                  *)
(***************************************************************************)
\* Python's None: as a category id, as a category name, as self.model.
None_id == 0
None == "None"
NoModel == [classes |-> <<>>]

\* The model file: missing, unreadable by joblib.load, or a saved model.
NoFile == [kind |-> "NoFile"]
Corrupt == [kind |-> "Corrupt"]
SavedModel(m, c) == [kind |-> "Saved", model |-> m, categories |-> c]

\* self.min_confidence, in hundredths.
min_confidence == 35

\* The categories of the Category table are numbered 1..NumCategories.
NumCategories == 3

CategoryIds == 1..NumCategories

\* Category.name of the category with this id.
category_name_of(id) == <<"Food", "Travel", "Rent", "Bills", "Fuel">>[id]

\* The transaction descriptions drawn: "Uber!", "uber", "UBER  7", "!!", ""
Descriptions ==
    { <<"U","b","e","r","!">>,
      <<"u","b","e","r">>,
      <<"U","B","E","R"," "," ","7">>,
      <<"!","!">>,
      <<>> }

\* str.lower on the characters drawn.
lower(c) ==
    CASE c = "U" -> "u"
      [] c = "B" -> "b"
      [] c = "E" -> "e"
      [] c = "R" -> "r"
      [] OTHER -> c

\* The characters the pattern [^a-z0-9\s] keeps.
kept_chars == { "u", "b", "e", "r", "7", " " }

\* re.sub(r'\s+', ' ', text).strip(), but for one leading blank
RECURSIVE collapse_spaces(_)
collapse_spaces(s) ==
    IF s = <<>> THEN <<>>
    ELSE IF Head(s) = " "
         THEN IF Tail(s) = <<>> \/ Head(Tail(s)) = " "
              THEN collapse_spaces(Tail(s))
              ELSE <<" ">> \o collapse_spaces(Tail(s))
         ELSE <<Head(s)>> \o collapse_spaces(Tail(s))

\* _preprocess_text
preprocess_text(text) ==
    IF text = <<>> THEN <<>>
    ELSE LET lowered == [i \in 1..Len(text) |-> lower(text[i])]
             cleaned == [i \in 1..Len(text) |->
                            IF lowered[i] \in kept_chars THEN lowered[i] ELSE " "]
             collapsed == collapse_spaces(cleaned)
         IN IF collapsed # <<>> /\ Head(collapsed) = " " THEN Tail(collapsed)
            ELSE collapsed

ProcessedTexts == { preprocess_text(d) : d \in Descriptions } \ { <<>> }

\* The probabilities predict_proba may give a class, in hundredths.
Levels == { 0, 30, 33, 34, 35, 65, 100 }

RECURSIVE SumSeq(_)
SumSeq(s) == IF s = <<>> THEN 0 ELSE Head(s) + SumSeq(Tail(s))

\* The probability vectors over n classes.
ProbVectors(n) == { v \in [1..n -> Levels] : SumSeq(v) = 100 }

\* The ids of a set in ascending order (Pipeline.classes_ is sorted).
RECURSIVE SortedSeq(_)
SortedSeq(S) ==
    IF S = {} THEN <<>>
    ELSE LET m == CHOOSE x \in S : \A y \in S : x <= y
         IN <<m>> \o SortedSeq(S \ {m})

\* The fitted pipelines over the labels given: the classes seen in the
\* training split, and the probabilities the pipeline gives each text.
Models(labels) ==
    UNION { { [classes |-> SortedSeq(C), proba |-> f] :
                f \in [ProcessedTexts -> ProbVectors(Cardinality(C))] } :
            C \in SUBSET labels \ { {} } }

\* The categories dictionary train builds from the labels it has seen.
categories_of(labels) == [id \in labels |-> category_name_of(id)]

\* dict.get(key), None when the key is missing
dict_get(d, key) == IF key \in DOMAIN d THEN d[key] ELSE None

max_of(v) == CHOOSE x \in { v[i] : i \in DOMAIN v } : \A i \in DOMAIN v : v[i] <= x

\* np.argmax: the first index of the largest entry
argmax(v) == CHOOSE i \in DOMAIN v :
                 /\ v[i] = max_of(v)
                 /\ \A j \in DOMAIN v : v[j] = max_of(v) => i <= j

\* _load_model: the object after the call
load_model(self, file) ==
    IF file = NoFile THEN self
    ELSE IF file = Corrupt THEN self
    ELSE [model |-> file.model, categories |-> file.categories]

NoPrediction == <<None_id, None, 0>>

below_or_at_min_confidence(max_prob) == max_prob <= min_confidence

\* the test `max_prob < self.min_confidence`
below_min_confidence(max_prob) == max_prob < min_confidence

\* predict: the object as predict leaves it (the model loaded on demand)
predict_self(self, file) ==
    IF self.model = NoModel THEN load_model(self, file) ELSE self

\* predict: the tuple returned
predict(self, file, description) ==
    LET loaded == predict_self(self, file)
    IN IF loaded.model = NoModel THEN NoPrediction
       ELSE LET processed_text == preprocess_text(description)
            IN IF processed_text = <<>> THEN NoPrediction
               ELSE LET probabilities == loaded.model.proba[processed_text]
                        max_prob == max_of(probabilities)
                        max_index == argmax(probabilities)
                        predicted_category_id == loaded.model.classes[max_index]
                    IN IF below_min_confidence(max_prob) THEN NoPrediction
                       ELSE << predicted_category_id,
                               dict_get(loaded.categories, predicted_category_id),
                               max_prob >>

\* The categorizer objects and model files predict is tried on.
CzObjects ==
    { [model |-> NoModel, categories |-> << >>] } \cup
    { [model |-> m, categories |-> categories_of(CategoryIds)] : m \in Models(CategoryIds) }

ModelFiles ==
    { NoFile, Corrupt } \cup
    { SavedModel(m, categories_of(CategoryIds)) : m \in Models(CategoryIds) }

InitCz ==
    /\ cz_self \in CzObjects
    /\ model_file \in ModelFiles
    /\ cz_self.model # NoModel => model_file \in { NoFile, Corrupt }
    /\ cz_description \in Descriptions
    /\ cz_result = NoPrediction
    /\ cz_pc = "call"

IdleCz ==
    /\ cz_self = [model |-> NoModel, categories |-> << >>]
    /\ model_file = NoFile
    /\ cz_description = <<>>
    /\ cz_result = NoPrediction
    /\ cz_pc = "done"

\* categorizer.predict(description)
cz_predict ==
    /\ cz_pc = "call"
    /\ cz_result' = predict(cz_self, model_file, cz_description)
    /\ cz_self' = predict_self(cz_self, model_file)
    /\ cz_pc' = "done"
    /\ UNCHANGED <<model_file, cz_description>>
    /\ UNCHANGED not_cz

\* the next call, with another description, on the same object
cz_next_call ==
    /\ cz_pc = "done"
    /\ cz_description' \in Descriptions
    /\ cz_pc' = "call"
    /\ UNCHANGED <<cz_self, model_file, cz_result>>
    /\ UNCHANGED not_cz

NextPredict ==
    \/ cz_predict
    \/ cz_next_call

(***************************************************************************)
(* TransactionCategorizer.train                                            *)
(***************************************************************************)
\* `len(descriptions) < 10` in train
min_samples == 10

\* self.model between `self.model = Pipeline(...)` and a fit that raised
Unfitted == [classes |-> <<>>, fitted |-> FALSE]

\* the categories of the transactions of a list that have one
labels_of(txs) ==
    { txs[i].category : i \in { j \in DOMAIN txs : txs[j].category # None_id } }

labelled_count(txs) ==
    Cardinality({ j \in DOMAIN txs : txs[j].category # None_id })

\* train without the test of the model file
train_outcomes_without_file_test(self, file, txs, force_retrain) ==
    IF self.model # NoModel /\ ~force_retrain
    THEN { [self |-> self, file |-> file, ret |-> "None"] }
    ELSE LET cats == categories_of(labels_of(txs))
         IN IF labelled_count(txs) < min_samples
            THEN { [self |-> [model |-> self.model, categories |-> cats],
                    file |-> file, ret |-> "False"] }
            ELSE { [self |-> [model |-> Unfitted, categories |-> cats],
                    file |-> file, ret |-> "raise"] }
                 \cup
                 { [self |-> [model |-> m, categories |-> cats],
                    file |-> SavedModel(m, cats), ret |-> "True"] :
                   m \in Models(labels_of(txs)) }

\* train(transactions, force_retrain): every way the call can end, as
\* [self: the object afterwards, file: the model file afterwards,
\*  ret: "None" | "False" | "True" | "raise"].  Pipeline.fit is free to
\* produce any model over the labels, or to raise (TfidfVectorizer with
\* min_df=2 raises ValueError when no term occurs in two descriptions).
train_outcomes(self, file, txs, force_retrain) ==
    IF self.model # NoModel /\ ~force_retrain
    THEN { [self |-> self, file |-> file, ret |-> "None"] }
    ELSE IF file # NoFile /\ ~force_retrain
    THEN { [self |-> load_model(self, file), file |-> file, ret |-> "None"] }
    ELSE LET cats == categories_of(labels_of(txs))
         IN IF labelled_count(txs) < min_samples
            THEN { [self |-> [model |-> self.model, categories |-> cats],
                    file |-> file, ret |-> "False"] }
            ELSE { [self |-> [model |-> Unfitted, categories |-> cats],
                    file |-> file, ret |-> "raise"] }
                 \cup
                 { [self |-> [model |-> m, categories |-> cats],
                    file |-> SavedModel(m, cats), ret |-> "True"] :
                   m \in Models(labels_of(txs)) }

(***************************************************************************)
(* auto_categorize_transactions                                            *)
(***************************************************************************)
Users == { "alice", "bob" }

\* `len(training_transactions) < 10` in the view
min_training == 10

\* The most categorized and uncategorized transactions alice starts with.
MaxCategorized == 10
MaxUncategorized == 2

\* Transaction.objects.filter(user=request.user, category__isnull=False)
training_transactions_of(txs, user) ==
    { i \in DOMAIN txs : txs[i].user = user /\ txs[i].category # None_id }

uncategorized_any_user(txs, user) ==
    { i \in DOMAIN txs : txs[i].category = None_id }

\* Transaction.objects.filter(user=request.user, category__isnull=True)
uncategorized_of(txs, user) ==
    { i \in DOMAIN txs : txs[i].user = user /\ txs[i].category = None_id }

\* the rows of a query as the list handed to train
rows(txs, ids) == [i \in ids |-> txs[i]]

\* Category.objects.get(id=category_id) finds a row
category_exists(category_id) == category_id \in CategoryIds

\* the loop over the uncategorized transactions, with the categorizer as
\* train left it: the table afterwards
categorize_all(txs, ids, categorizer, file) ==
    [i \in DOMAIN txs |->
        IF i \in ids
        THEN LET prediction == predict(categorizer, file, txs[i].description)
             IN IF prediction[1] # None_id /\ category_exists(prediction[1])
                THEN [txs[i] EXCEPT !.category = prediction[1],
                                    !.ai_categorized = TRUE]
                ELSE txs[i]
        ELSE txs[i]]

\* categorized_count: the transactions the loop saved
saved_count(txs, ids, categorizer, file) ==
    Cardinality({ i \in ids :
        LET prediction == predict(categorizer, file, txs[i].description)
        IN prediction[1] # None_id /\ category_exists(prediction[1]) })

Response(status, success, has_count, count) ==
    [status |-> status, success |-> success,
     has_count |-> has_count, categorized_count |-> count]

\* POST analytics/api/auto-categorize/ by `user`
auto_categorize_transactions(user) ==
    /\ ac_user' = user
    /\ UNCHANGED enable_ai_categorization
    /\ UNCHANGED not_ac
    /\ IF ~enable_ai_categorization[user]
       THEN /\ ac_response' = Response("disabled", FALSE, FALSE, 0)
            /\ UNCHANGED <<transactions, model_file>>
       ELSE IF Cardinality(training_transactions_of(transactions, user)) < min_training
       THEN /\ ac_response' = Response("not_enough_training", FALSE, FALSE, 0)
            /\ UNCHANGED <<transactions, model_file>>
       ELSE IF uncategorized_of(transactions, user) = {}
       THEN /\ ac_response' = Response("no_uncategorized", TRUE, TRUE, 0)
            /\ UNCHANGED <<transactions, model_file>>
       ELSE \E trained \in train_outcomes(
                    [model |-> NoModel, categories |-> << >>], model_file,
                    rows(transactions, training_transactions_of(transactions, user)),
                    FALSE) :
              IF trained.ret = "raise"
              THEN /\ ac_response' = Response("server_error", FALSE, FALSE, 0)
                   /\ UNCHANGED <<transactions, model_file>>
              ELSE LET uncategorized == uncategorized_of(transactions, user)
                   IN /\ model_file' = trained.file
                      /\ transactions' =
                            categorize_all(transactions, uncategorized,
                                           trained.self, trained.file)
                      /\ ac_response' =
                            Response("categorized", TRUE, TRUE,
                                     saved_count(transactions, uncategorized,
                                                 trained.self, trained.file))

\* user_profile_edit: the user switches AI categorization on or off
user_profile_edit(user, enable) ==
    /\ enable_ai_categorization' = [enable_ai_categorization EXCEPT ![user] = enable]
    /\ ac_user' = user
    /\ ac_response' = Response("redirect", TRUE, FALSE, 0)
    /\ UNCHANGED <<transactions, model_file>>
    /\ UNCHANGED not_ac

Tx(user, category, description) ==
    [user |-> user, category |-> category, ai_categorized |-> FALSE,
     description |-> description]

\* The tables the handler is tried on: alice has n categorized transactions
\* in two categories (one fewer than the view asks for, or enough) and some
\* uncategorized ones, bob one of each.
InitialTables ==
    { [i \in 1..n |-> Tx("alice", ((i - 1) % 2) + 1, <<"u","b","e","r">>)]
        \o u
        \o << Tx("bob", NumCategories, <<"u","b","e","r">>),
              Tx("bob", None_id, <<"u","b","e","r">>) >> :
      n \in (min_training - 1)..MaxCategorized,
      u \in UNION { [1..k -> { Tx("alice", None_id, d) : d \in Descriptions }] :
                    k \in 0..MaxUncategorized } }

\* A model file left by an earlier training: it may name a category that
\* has been deleted since (category_delete), NumCategories + 1.
EarlierFiles ==
    { NoFile, Corrupt } \cup
    { SavedModel(m, categories_of({1, NumCategories + 1})) :
      m \in Models({1, NumCategories + 1}) }

InitAc ==
    /\ transactions \in InitialTables
    /\ enable_ai_categorization = [u \in Users |-> TRUE]
    /\ ac_user = "alice"
    /\ ac_response = Response("none", FALSE, FALSE, 0)
    /\ model_file \in EarlierFiles

IdleAc ==
    /\ transactions = << >>
    /\ enable_ai_categorization = [u \in Users |-> TRUE]
    /\ ac_user = "alice"
    /\ ac_response = Response("none", FALSE, FALSE, 0)

NextCategorize ==
    \/ \E user \in Users : auto_categorize_transactions(user)
    \/ \E user \in Users, enable \in BOOLEAN : user_profile_edit(user, enable)

(***************************************************************************)
(* SpendingAnalyzer.detect_spending_anomalies, update_anomaly_settings      *)
(***************************************************************************)
NoUser == "NoUser"
NoSensitivity == 0 - 1

\* `len(expense_transactions) < 10`
min_expenses == 10

\* the fallback `min_amount = 100.0`
default_min_amount == 100

\* the fallback `sensitivity = 1.0`, in tenths
default_sensitivity == 10

\* UserProfile.user = OneToOneField(User, related_name='profile'): the name
\* under which a User object carries its profile
profile_related_name == "profile"

\* `self.user.userprofile`: the attribute exists on a User
user_has_attribute(name) == name = profile_related_name

\* The amounts of the expenses drawn, in order, repeated as needed.
AmountCycle == <<100, 50, 99, 150, 60>>

\* The most expenses in a list handed to the analyzer, and the most rows
\* IsolationForest.fit_predict labels -1 in one run.
MaxExpenses == 11
MaxFlagged == 2

\* A list of n expenses, the amounts taken from AmountCycle, with one income
\* and one transfer among them.  Ids are not positions.
TransactionList(n) ==
    << [id |-> 700, transaction_type |-> "income", amount |-> 500] >>
    \o [i \in 1..n |->
          [id |-> 10 * i, transaction_type |-> "expense",
           amount |-> AmountCycle[((i - 1) % Len(AmountCycle)) + 1]]]
    \o << [id |-> 800, transaction_type |-> "transfer", amount |-> 300] >>

TransactionLists ==
    { TransactionList(n) : n \in (min_expenses - 1)..MaxExpenses }

is_expense(tx) == tx.transaction_type = "expense"

\* the try/except around the profile read: the profile's value when the
\* read succeeds, the fallback when it raises or there is no user
min_amount_in_force(user, profile_min_amount) ==
    IF user # NoUser
    THEN IF user_has_attribute("userprofile")
         THEN profile_min_amount[user]
         ELSE default_min_amount
    ELSE default_min_amount

sensitivity_in_force(user, sensitivity, profile_sensitivity) ==
    IF sensitivity # NoSensitivity THEN sensitivity
    ELSE IF user # NoUser
    THEN IF user_has_attribute("userprofile")
         THEN profile_sensitivity[user]
         ELSE default_sensitivity
    ELSE default_sensitivity

\* the filter on the minimum amount left out
any_amount(tx, min_amount) == TRUE

\* `float(tx.amount) >= min_amount`
at_least_min_amount(tx, min_amount) == tx.amount >= min_amount

\* contamination = 0.05 * sensitivity must lie in (0, 0.5], or fit raises
valid_contamination(sensitivity) == 0 < 5 * sensitivity /\ 5 * sensitivity <= 500

\* the ids of the rows at the positions given, in row order
ids_at(txs, positions) ==
    LET order == SortedSeq(positions)
    IN [k \in 1..Len(order) |-> txs[order[k]].id]

\* detect_spending_anomalies(transactions, sensitivity): every list it may
\* return.  fit_predict may label any rows -1; a fit that raises gives [].
detect_spending_anomalies(user, txs, sensitivity, profile_min_amount, profile_sensitivity) ==
    LET expense_transactions == SelectSeq(txs, is_expense)
    IN IF Len(expense_transactions) < min_expenses THEN { <<>> }
       ELSE LET min_amount == min_amount_in_force(user, profile_min_amount)
                sens == sensitivity_in_force(user, sensitivity, profile_sensitivity)
                above(tx) == at_least_min_amount(tx, min_amount)
                filtered == SelectSeq(expense_transactions, above)
            IN IF filtered = <<>> THEN { <<>> }
               ELSE IF ~valid_contamination(sens) THEN { <<>> }
               ELSE { ids_at(filtered, flagged) :
                        flagged \in { F \in SUBSET (1..Len(filtered)) :
                                        Cardinality(F) <= MaxFlagged } }

\* SpendingAnalyzer(user).detect_spending_anomalies(transactions, sensitivity)
an_detect(user, sensitivity) ==
    /\ an_user' = user
    /\ an_sensitivity' = sensitivity
    /\ an_result' \in detect_spending_anomalies(user, an_transactions, sensitivity,
                            anomaly_min_amount, anomaly_detection_sensitivity)
    /\ an_pc' = "detected"
    /\ UNCHANGED <<anomaly_min_amount, anomaly_detection_sensitivity, an_transactions>>
    /\ UNCHANGED not_an

\* The values a settings form may post; NotANumber makes float() raise.
NotANumber == 0 - 2
PostedAmounts == { 50, 150, NotANumber }
PostedSensitivities == { 10, 20 }

\* update_anomaly_settings: GET and non-AJAX POST redirect; an AJAX POST
\* stores the settings unless a value does not parse
update_anomaly_settings(user, method, xhr, sensitivity, min_amount) ==
    /\ an_user' = user
    /\ an_pc' = "settings"
    /\ an_result' = <<>>
    /\ UNCHANGED <<an_transactions, an_sensitivity>>
    /\ UNCHANGED not_an
    /\ IF method = "GET" \/ ~xhr \/ sensitivity = NotANumber \/ min_amount = NotANumber
       THEN UNCHANGED <<anomaly_min_amount, anomaly_detection_sensitivity>>
       ELSE /\ anomaly_min_amount' = [anomaly_min_amount EXCEPT ![user] = min_amount]
            /\ anomaly_detection_sensitivity' =
                  [anomaly_detection_sensitivity EXCEPT ![user] = sensitivity]

InitAn ==
    /\ anomaly_min_amount = [u \in Users |-> default_min_amount]
    /\ anomaly_detection_sensitivity = [u \in Users |-> default_sensitivity]
    /\ an_transactions \in TransactionLists
    /\ an_user = NoUser
    /\ an_sensitivity = NoSensitivity
    /\ an_result = <<>>
    /\ an_pc = "idle"

IdleAn ==
    /\ anomaly_min_amount = [u \in Users |-> default_min_amount]
    /\ anomaly_detection_sensitivity = [u \in Users |-> default_sensitivity]
    /\ an_transactions = <<>>
    /\ an_user = NoUser
    /\ an_sensitivity = NoSensitivity
    /\ an_result = <<>>
    /\ an_pc = "idle"

NextAnomaly ==
    \/ \E user \in Users \cup { NoUser }, sensitivity \in { NoSensitivity, 200 } :
          an_detect(user, sensitivity)
    \/ \E user \in { "alice" }, method \in { "GET", "POST" }, xhr \in BOOLEAN,
          sensitivity \in PostedSensitivities, min_amount \in PostedAmounts :
          update_anomaly_settings(user, method, xhr, sensitivity, min_amount)

(***************************************************************************)
(* SpendingAnalyzer.predict_monthly_spending                               *)
(*                                                                         *)
(* A calendar month is the number 12 * year + (month - 1); an amount the   *)
(* function computes is the fraction <<numerator, denominator>>.           *)
(***************************************************************************)
\* The months drawn: MonthSpan months from August 2023 on.
MonthSpan == 7
FirstMonth == 12 * 2023 + 7
Months == FirstMonth..(FirstMonth + MonthSpan - 1)

\* The largest months_ahead drawn.
MaxMonthsAhead == 3

\* Period.strftime('%b %Y')
strftime_b_Y(month) ==
    << <<"Jan", "Feb", "Mar", "Apr", "May", "Jun",
         "Jul", "Aug", "Sep", "Oct", "Nov", "Dec">>[(month % 12) + 1],
       month \div 12 >>

\* df.groupby('month_year')['amount'].sum(): the months that have a row, in
\* ascending order, and the total of a month
months_of(txs) == { txs[i].month : i \in DOMAIN txs }

RECURSIVE total_of_month(_, _)
total_of_month(txs, month) ==
    IF txs = <<>> THEN 0
    ELSE (IF Head(txs).month = month THEN Head(txs).amount ELSE 0)
         + total_of_month(Tail(txs), month)

monthly_totals(txs) ==
    LET index == SortedSeq(months_of(txs))
    IN [k \in 1..Len(index) |-> [month |-> index[k],
                                  total |-> total_of_month(txs, index[k])]]

\* Series.tail(n), Series.iloc[-6:-3]
tail(series, n) ==
    SubSeq(series, IF Len(series) > n THEN Len(series) - n + 1 ELSE 1, Len(series))

iloc_6_3(series) == SubSeq(series, Len(series) - 5, Len(series) - 3)

RECURSIVE sum_totals(_)
sum_totals(series) ==
    IF series = <<>> THEN 0 ELSE Head(series).total + sum_totals(Tail(series))

RECURSIVE power(_, _)
power(x, n) == IF n = 0 THEN 1 ELSE x * power(x, n - 1)

too_few_months_2(series) == Len(series) < 2

\* `len(monthly_totals) < 3`
too_few_months(series) == Len(series) < 3

\* predict_monthly_spending(transactions, months_ahead): the 'predictions'
predict_monthly_spending(txs, months_ahead) ==
    LET expense_transactions == SelectSeq(txs, is_expense)
    IN IF Len(expense_transactions) < 3 THEN <<>>
       ELSE LET totals == monthly_totals(expense_transactions)
            IN IF too_few_months(totals) THEN <<>>
               ELSE LET recent == sum_totals(tail(totals, 3))      \* 3 * mean
                        older == IF Len(totals) >= 6
                                 THEN sum_totals(iloc_6_3(totals)) \* 3 * mean
                                 ELSE 0
                        \* trend_factor = trend_num / trend_den
                        trend_num == IF Len(totals) >= 6 /\ older > 0 THEN recent ELSE 1
                        trend_den == IF Len(totals) >= 6 /\ older > 0 THEN older ELSE 1
                        last_date == totals[Len(totals)].month
                    IN [i \in 1..months_ahead |->
                          [month |-> strftime_b_Y(last_date + i),
                           amount |-> << recent * power(trend_num, i),
                                         3 * power(trend_den, i) >>]]

\* The transactions drawn: `per_month` expenses in every month of a set of
\* months, latest first (Meta.ordering), then an income in the last month
\* drawn.  The k-th expense of a month m amounts to (m % 3) * k (hundreds
\* of rupees, to keep the powers of the trend small).
ForecastInput(months, per_month) ==
    LET index == SortedSeq(months)
        n == Len(index)
    IN << [transaction_type |-> "income", amount |-> 9,
           month |-> FirstMonth + MonthSpan - 1] >>
       \o [j \in 1..(n * per_month) |->
             LET m == index[n - ((j - 1) \div per_month)]
                 k == ((j - 1) % per_month) + 1
             IN [transaction_type |-> "expense", amount |-> (m % 3) * k,
                 month |-> m]]

InitFc ==
    /\ fc_transactions \in { ForecastInput(months, per_month) :
                                months \in SUBSET Months, per_month \in 1..2 }
    /\ fc_months_ahead \in 0..MaxMonthsAhead
    /\ fc_result = <<>>
    /\ fc_pc = "call"

IdleFc ==
    /\ fc_transactions = <<>>
    /\ fc_months_ahead = 0
    /\ fc_result = <<>>
    /\ fc_pc = "done"

\* analyzer.predict_monthly_spending(transactions, months_ahead)
fc_predict ==
    /\ fc_pc = "call"
    /\ fc_result' = predict_monthly_spending(fc_transactions, fc_months_ahead)
    /\ fc_pc' = "done"
    /\ UNCHANGED <<fc_transactions, fc_months_ahead>>
    /\ UNCHANGED not_fc

\* the next call on the same transactions, with another months_ahead
fc_next_call ==
    /\ fc_pc = "done"
    /\ fc_months_ahead' \in 0..MaxMonthsAhead
    /\ fc_pc' = "call"
    /\ UNCHANGED <<fc_transactions, fc_result>>
    /\ UNCHANGED not_fc

NextForecast ==
    \/ fc_predict
    \/ fc_next_call

(***************************************************************************)
(* Dates: datetime.date, its ordinal (days since 0001-01-01) and month     *)
(***************************************************************************)
Date(y, m, d) == [year |-> y, month |-> m, day |-> d]

is_leap(y) == (y % 4 = 0 /\ y % 100 # 0) \/ y % 400 = 0

days_before_month == <<0, 31, 59, 90, 120, 151, 181, 212, 243, 273, 304, 334>>

\* date.toordinal()
toordinal(date) ==
    LET y == date.year - 1
    IN 365 * y + (y \div 4) - (y \div 100) + (y \div 400)
       + days_before_month[date.month]
       + (IF date.month > 2 /\ is_leap(date.year) THEN 1 ELSE 0)
       + date.day

\* dt.to_period('M')
month_year(date) == 12 * date.year + (date.month - 1)

\* timezone.now().date()
today == Date(2024, 6, 15)

(***************************************************************************)
(* BudgetAnalyzer.generate_budget_recommendations                          *)
(*                                                                         *)
(* An average or a recommended amount is the fraction <<num, den>>.        *)
(***************************************************************************)
NoCategory == "None"

\* The category names, in the order groupby('category_name') sorts them.
CategoryNames == <<"Food", "Rent">>

\* The most budgets in current_budgets.
MaxBudgets == 2

\* The dates of the transactions drawn: 5, 26, 90, 91 and 197 days before
\* today.
DrawnDates ==
    << Date(2024, 6, 10), Date(2024, 5, 20), Date(2024, 3, 17),
       Date(2024, 3, 16), Date(2023, 12, 1) >>

\* `len(expense_transactions) < 5`
min_categorized_expenses == 5

\* `avg_spend < 100`
small_category_limit == 100

\* timedelta(days=90)
recent_days == 90

is_categorized_expense(tx) ==
    tx.transaction_type = "expense" /\ tx.category # NoCategory

\* df[df['date'] >= three_months_ago_pd]
is_recent(tx) == toordinal(tx.date) >= toordinal(today) - recent_days

RECURSIVE category_total(_, _)
\* df.groupby('category_name')['amount'].sum() for one category
category_total(df, category) ==
    IF df = <<>> THEN 0
    ELSE (IF Head(df).category = category THEN Head(df).amount ELSE 0)
         + category_total(Tail(df), category)

\* df['month_year'].nunique(), at least 1
unique_months(df) ==
    LET n == Cardinality({ month_year(df[i].date) : i \in DOMAIN df })
    IN IF n < 1 THEN 1 ELSE n

RECURSIVE current_budget_amount(_, _)
\* current_budget_amounts.get(category, 0): the dictionary is filled in
\* list order, so the last budget of a category stays
current_budget_amount(budgets, category) ==
    IF budgets = <<>> THEN 0
    ELSE IF budgets[Len(budgets)].category = category
         THEN budgets[Len(budgets)].amount
         ELSE current_budget_amount(SubSeq(budgets, 1, Len(budgets) - 1), category)

\* `avg_spend < 100` for avg_spend = total / months
very_small(total, months) == total < small_category_limit * months

\* `recommended_amount > current_amount * 1.2` for
\* recommended_amount = 1.1 * total / months
recommend_increase(total, months, current_amount) ==
    11 * total > 12 * current_amount * months

recommend_decrease_at_equal(total, months, current_amount) ==
    100 * current_amount * months >= 132 * total

\* `current_amount > recommended_amount * 1.2`
recommend_decrease(total, months, current_amount) ==
    100 * current_amount * months > 132 * total

\* the recommendation of one category, or <<>> when it is skipped
recommendation_for(category, total, months, current_amount) ==
    LET entry(adjustment) ==
            << [category |-> category,
                current_amount |-> current_amount,
                recommended_amount |-> <<11 * total, 10 * months>>,
                average_spending |-> <<total, months>>,
                adjustment |-> adjustment] >>
    IN IF very_small(total, months) THEN <<>>
       ELSE IF current_amount > 0
            THEN IF recommend_increase(total, months, current_amount)
                 THEN entry("increase")
                 ELSE IF recommend_decrease(total, months, current_amount)
                      THEN entry("decrease")
                      ELSE <<>>
            ELSE entry("new")

\* a fraction is larger than another
frac_gt(a, b) == a[1] * b[2] > b[1] * a[2]

RECURSIVE sort_by_recommended_desc(_)
\* recommendations.sort(key=recommended_amount, reverse=True), stable
sort_by_recommended_desc(recs) ==
    IF recs = <<>> THEN <<>>
    ELSE LET rest == sort_by_recommended_desc(Tail(recs))
             x == Head(recs)
             before == { k \in 0..Len(rest) :
                           \A j \in 1..k :
                              ~frac_gt(x.recommended_amount, rest[j].recommended_amount)
                              /\ frac_gt(rest[j].recommended_amount, x.recommended_amount) }
             pos == CHOOSE k \in before : \A j \in before : j <= k
         IN SubSeq(rest, 1, pos) \o <<x>> \o SubSeq(rest, pos + 1, Len(rest))

RECURSIVE recommendations_from(_, _, _)
\* the loop over category_avgs.items(), in the order of the names
recommendations_from(names, df, budgets) ==
    IF names = <<>> THEN <<>>
    ELSE (IF \E i \in DOMAIN df : df[i].category = Head(names)
          THEN recommendation_for(Head(names), category_total(df, Head(names)),
                                  unique_months(df),
                                  current_budget_amount(budgets, Head(names)))
          ELSE <<>>)
         \o recommendations_from(Tail(names), df, budgets)

\* generate_budget_recommendations(transactions, current_budgets)
generate_budget_recommendations(txs, budgets) ==
    IF txs = <<>> THEN [success |-> FALSE, recommendations |-> <<>>]
    ELSE LET df == SelectSeq(txs, is_categorized_expense)
             \* computed by the code and not read again
             recent_df == IF SelectSeq(df, is_recent) = <<>> THEN df
                          ELSE SelectSeq(df, is_recent)
         IN IF Len(df) < min_categorized_expenses
            THEN [success |-> FALSE, recommendations |-> <<>>]
            ELSE [success |-> TRUE,
                  recommendations |->
                      sort_by_recommended_desc(
                          recommendations_from(CategoryNames, df, budgets))]

\* The transactions drawn: on every date of a set, an expense of `food` on
\* Food, one of 1200 on Rent, an expense without category and an income.
BudgetInput(dates, food) ==
    LET index == SortedSeq(dates)
    IN [j \in 1..(4 * Len(index)) |->
          LET date == DrawnDates[index[((j - 1) \div 4) + 1]]
              k == (j - 1) % 4
          IN CASE k = 0 -> [transaction_type |-> "expense", category |-> "Food",
                            amount |-> food, date |-> date]
               [] k = 1 -> [transaction_type |-> "expense", category |-> "Rent",
                            amount |-> 1200, date |-> date]
               [] k = 2 -> [transaction_type |-> "expense", category |-> NoCategory,
                            amount |-> 5000, date |-> date]
               [] k = 3 -> [transaction_type |-> "income", category |-> "Food",
                            amount |-> 7000, date |-> date]]

FoodAmounts == { 99, 100 }
BudgetAmounts == { 0, 1000, 1100, 1584, 1585 }

InitBr ==
    /\ br_transactions \in { BudgetInput(dates, food) :
                                dates \in SUBSET DOMAIN DrawnDates, food \in FoodAmounts }
    /\ br_budgets = <<>>
    /\ br_result = [success |-> FALSE, recommendations |-> <<>>]
    /\ br_pc = "call"

IdleBr ==
    /\ br_transactions = <<>>
    /\ br_budgets = <<>>
    /\ br_result = [success |-> FALSE, recommendations |-> <<>>]
    /\ br_pc = "done"

\* analyzer.generate_budget_recommendations(transactions, budgets)
br_generate ==
    /\ br_pc = "call"
    /\ br_result' = generate_budget_recommendations(br_transactions, br_budgets)
    /\ br_pc' = "done"
    /\ UNCHANGED <<br_transactions, br_budgets>>
    /\ UNCHANGED not_br

\* budget_create: one more budget of the user, on any category, another
\* budget of the category or not.  Budgets are listed by name, so the name
\* given decides the place of the budget in the list.
budget_create(category, amount, place) ==
    /\ Len(br_budgets) < MaxBudgets
    /\ place \in 0..Len(br_budgets)
    /\ br_budgets' = SubSeq(br_budgets, 1, place)
                        \o << [category |-> category, amount |-> amount] >>
                        \o SubSeq(br_budgets, place + 1, Len(br_budgets))
    /\ br_pc' = "call"
    /\ UNCHANGED <<br_transactions, br_result>>
    /\ UNCHANGED not_br

NextBudgetRec ==
    \/ br_generate
    \/ \E category \in { "Food", "Rent" }, amount \in BudgetAmounts, place \in 0..MaxBudgets :
          budget_create(category, amount, place)

(***************************************************************************)
(* BudgetAnalyzer.get_recommendations                                      *)
(*                                                                         *)
(* A lookup keyword of a queryset filter is the sequence of its parts:     *)
(* month__gte is <<"month", "gte">>.  A suggested amount is a fraction.    *)
(***************************************************************************)
\* The fields of the model Budget.
budget_fields ==
    { "id", "user", "category", "amount", "start_date", "end_date", "period",
      "name", "is_active", "created_at", "updated_at" }

\* Budget.objects.filter(**lookups) resolves every keyword into a field, and
\* raises FieldError when one names no field of the model.
raises_FieldError(lookups) == \E k \in lookups : k[1] \notin budget_fields

\* The most expenses of the user in the last 90 days.
MaxRecent == 6

Tomorrow == Date(2024, 6, 16)
Day90 == Date(2024, 3, 17)
Day91 == Date(2024, 3, 16)

\* `expense_transactions.count() < 5`
min_recent_expenses == 5

\* [:5]
top_categories_count == 5

Entry(type, category_id, suggested_amount) ==
    [type |-> type, category_id |-> category_id, suggested_amount |-> suggested_amount]

InfoEntry == Entry("info", None_id, <<0, 1>>)
ErrorEntry == Entry("error", None_id, <<0, 1>>)

\* Transaction.objects.filter(user=, date__gte=start_date, date__lte=end_date)
\*     .filter(transaction_type='expense')
expense_transactions_of(user, txs) ==
    SelectSeq(txs, LAMBDA tx :
        /\ tx.user = user
        /\ toordinal(tx.date) >= toordinal(today) - recent_days
        /\ toordinal(tx.date) <= toordinal(today)
        /\ tx.transaction_type = "expense")

RECURSIVE sum_amounts(_)
sum_amounts(txs) ==
    IF txs = <<>> THEN 0 ELSE Head(txs).amount + sum_amounts(Tail(txs))

in_category(txs, category) == SelectSeq(txs, LAMBDA tx : tx.category = category)

RECURSIVE by_total_desc(_, _)
\* .values('category__id', 'category__name').annotate(total=Sum('amount'))
\*     .order_by('-total')
by_total_desc(categories, txs) ==
    IF categories = {} THEN <<>>
    ELSE LET c == CHOOSE x \in categories :
                    \A y \in categories :
                        \/ sum_amounts(in_category(txs, x)) > sum_amounts(in_category(txs, y))
                        \/ /\ sum_amounts(in_category(txs, x)) = sum_amounts(in_category(txs, y))
                           /\ x <= y
         IN <<c>> \o by_total_desc(categories \ {c}, txs)

category_spending(txs) ==
    LET all == by_total_desc({ txs[i].category : i \in DOMAIN txs }, txs)
    IN SubSeq(all, 1, IF Len(all) < top_categories_count THEN Len(all)
                      ELSE top_categories_count)

RECURSIVE new_budget_entries(_, _, _)
\* the loop "Recommend budgets for top categories without budgets"
new_budget_entries(top, txs, existing_budgets) ==
    IF top = <<>> THEN <<>>
    ELSE (IF Head(top) # None_id /\ Head(top) \notin existing_budgets
          THEN << Entry("new_budget", Head(top),
                        << 9 * sum_amounts(in_category(txs, Head(top))),
                           10 * Len(in_category(txs, Head(top))) >>) >>
          ELSE <<>>)
         \o new_budget_entries(Tail(top), txs, existing_budgets)

RECURSIVE adjust_budget_entries(_, _)
\* the loop "Recommend adjustments to existing budgets"
adjust_budget_entries(budgets, txs) ==
    IF budgets = <<>> THEN <<>>
    ELSE LET budget == Head(budgets)
             actual_spending ==
                 sum_amounts(SelectSeq(txs, LAMBDA tx :
                     /\ tx.category = budget.category
                     /\ tx.date.month = budget.month
                     /\ tx.date.year = budget.year))
         IN (IF budget.category # None_id /\ budget.amount > 0
             THEN IF 100 * (actual_spending - budget.amount) > 20 * budget.amount
                  THEN << Entry("adjust_budget", budget.category,
                                <<95 * actual_spending, 100>>) >>
                  ELSE IF 100 * (actual_spending - budget.amount) < (0 - 30) * budget.amount
                       THEN << Entry("adjust_budget", budget.category,
                                     <<11 * actual_spending, 10>>) >>
                       ELSE <<>>
             ELSE <<>>)
            \o adjust_budget_entries(Tail(budgets), txs)

\* BudgetAnalyzer(user).get_recommendations()
get_recommendations(user, txs, budgets) ==
    IF user = NoUser THEN <<>>
    ELSE LET expense_transactions == expense_transactions_of(user, txs)
             start_date_month == Day90.month
             start_date_year == Day90.year
         IN IF Len(expense_transactions) < min_recent_expenses
            THEN << InfoEntry >>
            ELSE IF raises_FieldError({ <<"user">>, <<"month">>, <<"year">> })
                 \* caught by `except Exception`
                 THEN << ErrorEntry >>
                 ELSE LET existing_budgets ==
                              { budgets[i].category :
                                  i \in { j \in DOMAIN budgets :
                                            /\ budgets[j].user = user
                                            /\ budgets[j].month = today.month
                                            /\ budgets[j].year = today.year } }
                          new_budget ==
                              new_budget_entries(category_spending(expense_transactions),
                                                 expense_transactions, existing_budgets)
                      IN IF raises_FieldError({ <<"user">>, <<"month", "gte">>,
                                                <<"year", "gte">> })
                         THEN new_budget \o << ErrorEntry >>
                         ELSE new_budget \o
                              adjust_budget_entries(
                                  SelectSeq(budgets, LAMBDA b :
                                      /\ b.user = user
                                      /\ b.month >= start_date_month
                                      /\ b.year >= start_date_year),
                                  expense_transactions)

\* The table Transaction drawn: `recent` expenses of alice in the last 90
\* days (today and 90 days ago in turn), over the categories and without
\* category in turn; then, if asked, an expense of 91 days ago, one of
\* tomorrow, an income of today and an expense of bob.
RecentAmounts == <<300, 200, 100, 400>>

TransactionTable(recent, others) ==
    [i \in 1..recent |->
        [user |-> "alice", transaction_type |-> "expense",
         category |-> (i % (NumCategories + 1)),
         amount |-> RecentAmounts[(i % Len(RecentAmounts)) + 1],
         date |-> IF i % 2 = 0 THEN Day90 ELSE today]]
    \o (IF others
        THEN << [user |-> "alice", transaction_type |-> "expense", category |-> 1,
                 amount |-> 900, date |-> Day91],
                [user |-> "alice", transaction_type |-> "expense", category |-> 1,
                 amount |-> 900, date |-> Tomorrow],
                [user |-> "alice", transaction_type |-> "income", category |-> 1,
                 amount |-> 900, date |-> today],
                [user |-> "bob", transaction_type |-> "expense", category |-> 1,
                 amount |-> 900, date |-> today] >>
        ELSE <<>>)

\* The table Budget drawn: no budget, or budgets of alice that start this
\* month.
BudgetTables ==
    { <<>> } \cup
    { << [user |-> "alice", category |-> c, amount |-> a, start_date |-> today] >> :
        c \in 1..2, a \in { 100, 1000 } }

InitGr ==
    /\ gr_user \in { NoUser, "alice" }
    /\ gr_transactions \in { TransactionTable(recent, others) :
                                recent \in 0..MaxRecent, others \in BOOLEAN }
    /\ gr_budgets \in BudgetTables
    /\ gr_result = <<>>
    /\ gr_pc = "call"

IdleGr ==
    /\ gr_user = NoUser
    /\ gr_transactions = <<>>
    /\ gr_budgets = <<>>
    /\ gr_result = <<>>
    /\ gr_pc = "done"

\* budget_analyzer.get_recommendations()
gr_get_recommendations ==
    /\ gr_pc = "call"
    /\ gr_result' = get_recommendations(gr_user, gr_transactions, gr_budgets)
    /\ gr_pc' = "done"
    /\ UNCHANGED <<gr_user, gr_transactions, gr_budgets>>
    /\ UNCHANGED not_gr

\* BudgetAnalyzer(user): the analyzer of the next request
gr_next_call(user) ==
    /\ gr_pc = "done"
    /\ gr_user' = user
    /\ gr_pc' = "call"
    /\ UNCHANGED <<gr_transactions, gr_budgets, gr_result>>
    /\ UNCHANGED not_gr

NextGetRecommendations ==
    \/ gr_get_recommendations
    \/ \E user \in { NoUser, "alice" } : gr_next_call(user)

(***************************************************************************)
(* BudgetAnalyzer.analyze_budget_performance                               *)
(*                                                                         *)
(* percentage_used, daily_rate and the projections are fractions.          *)
(***************************************************************************)
\* `not budget`
NoBudget == [id |-> None_id, category |-> None_id, amount |-> 0, start_date |-> today]

\* The most transactions given to one call.
MaxGiven == 3

\* days_in_period = 30
days_in_period == 30

over_budget_limit == 100
at_risk_limit == 90
warning_limit == 75

\* what the function returns before it has a total
NoPerformance ==
    [success |-> FALSE, amount |-> 0, spent |-> 0, remaining |-> 0,
     percentage_used |-> <<0, 1>>, status |-> "none", days_elapsed |-> 0,
     daily_rate |-> <<0, 1>>, projected_total |-> <<0, 1>>]

\* `percentage_used > 100`, `>= 90`, `>= 75` for percentage_used = p[1] / p[2]
over_budget_limit_passed(p) == p[1] > over_budget_limit * p[2]

at_risk_limit_reached(p) == p[1] >= at_risk_limit * p[2]

warning_limit_reached(p) == p[1] >= warning_limit * p[2]

status_of(percentage_used) ==
    IF over_budget_limit_passed(percentage_used) THEN "over_budget"
    ELSE IF at_risk_limit_reached(percentage_used) THEN "at_risk"
    ELSE IF warning_limit_reached(percentage_used) THEN "warning"
    ELSE "on_track"

\* analyze_budget_performance(budget, transactions)
analyze_budget_performance(budget, txs) ==
    IF budget = NoBudget \/ txs = <<>> THEN NoPerformance
    ELSE LET category_transactions ==
                 SelectSeq(txs, LAMBDA tx :
                     /\ tx.category # None_id
                     /\ tx.category = budget.category
                     /\ tx.transaction_type = "expense")
         IN IF category_transactions = <<>> THEN NoPerformance
            ELSE LET total_spent == sum_amounts(category_transactions)
                     budget_amount == budget.amount
                     percentage_used ==
                         IF budget_amount > 0 THEN <<total_spent * 100, budget_amount>>
                         ELSE <<0, 1>>
                     since_start == toordinal(today) - toordinal(budget.start_date) + 1
                     days_elapsed ==
                         IF since_start < days_in_period THEN since_start ELSE days_in_period
                     daily_rate ==
                         IF days_elapsed > 0 THEN <<total_spent, days_elapsed>> ELSE <<0, 1>>
                 IN [success |-> TRUE,
                     amount |-> budget_amount,
                     spent |-> total_spent,
                     remaining |-> budget_amount - total_spent,
                     percentage_used |-> percentage_used,
                     status |-> status_of(percentage_used),
                     days_elapsed |-> days_elapsed,
                     daily_rate |-> daily_rate,
                     projected_total |->
                         << total_spent * daily_rate[2]
                               + daily_rate[1] * (days_in_period - days_elapsed),
                            daily_rate[2] >>]

\* The budgets drawn: on category 1, of amount 0 or 100, started today, 40
\* days ago or tomorrow.
PerformanceBudgets ==
    { NoBudget } \cup
    { [id |-> 1, category |-> 1, amount |-> a, start_date |-> d] :
        a \in { 0, 100 }, d \in { today, Date(2024, 5, 6), Tomorrow } }

\* The transactions drawn: expenses on the category of the budget, and one
\* expense on another category, one without category and one income.
GivenTransactions ==
    { [transaction_type |-> "expense", category |-> 1, amount |-> a] :
        a \in { 1, 74, 75, 90, 100 } }
    \cup { [transaction_type |-> "expense", category |-> 2, amount |-> 500],
           [transaction_type |-> "expense", category |-> None_id, amount |-> 500],
           [transaction_type |-> "income", category |-> 1, amount |-> 500] }

InitBp ==
    /\ bp_budget \in PerformanceBudgets
    /\ bp_transactions = <<>>
    /\ bp_result = NoPerformance
    /\ bp_pc = "call"

IdleBp ==
    /\ bp_budget = NoBudget
    /\ bp_transactions = <<>>
    /\ bp_result = NoPerformance
    /\ bp_pc = "done"

\* analyzer.analyze_budget_performance(budget, transactions)
bp_analyze ==
    /\ bp_pc = "call"
    /\ bp_result' = analyze_budget_performance(bp_budget, bp_transactions)
    /\ bp_pc' = "done"
    /\ UNCHANGED <<bp_budget, bp_transactions>>
    /\ UNCHANGED not_bp

\* transaction_create: one more transaction in the period of the budget
bp_transaction_create(tx) ==
    /\ Len(bp_transactions) < MaxGiven
    /\ bp_transactions' = Append(bp_transactions, tx)
    /\ bp_pc' = "call"
    /\ UNCHANGED <<bp_budget, bp_result>>
    /\ UNCHANGED not_bp

NextPerformance ==
    \/ bp_analyze
    \/ \E tx \in GivenTransactions : bp_transaction_create(tx)

(***************************************************************************)
(* The analytics handlers of one user (analytics/views.py) and the table   *)
(* SpendingAnomaly.  The user has NumTransactions expenses; expense i was  *)
(* made age_of(i) days ago, so the table ordered by '-date' is in the      *)
(* order of the ids.                                                       *)
(***************************************************************************)
\* The expenses of the user.
NumTransactions == 10

\* The most rows of SpendingAnomaly.
MaxRecords == 4

TxIds == 1..NumTransactions

age_of(id) == IF id <= 4 THEN 5 * id ELSE 100 * (id - 4)

\* The expenses IsolationForest may label -1: any of those of at least the
\* minimum amount, here the first three.
Flaggable == { 1, 2, 3 }

\* `days` of a timeframe parameter
days_of(timeframe) ==
    CASE timeframe = "3months" -> 90
      [] timeframe = "6months" -> 180
      [] timeframe = "1year" -> 365
      [] timeframe = "all" -> 9999
      [] OTHER -> 30

\* Transaction.objects.filter(user=, date__gte=start_date)
transactions_within(days) == { id \in TxIds : age_of(id) <= days }

\* analyzer.detect_anomalies(transactions): the ids it may return, in the
\* order of the transactions
detect_anomalies_outcomes(txs) ==
    IF Cardinality(txs) < min_expenses THEN { <<>> }
    ELSE { SortedSeq(S) : S \in { T \in SUBSET (Flaggable \cap txs) :
                                     Cardinality(T) <= MaxFlagged } }

NoAnomalies == <<>>

HandlerResponse(handler, ran, anomalies) ==
    [handler |-> handler, ran |-> ran, anomalies |-> anomalies]

\* the rows of a transaction
existing_of(records, tx) ==
    { i \in DOMAIN records : records[i].transaction = tx }

\* list(SpendingAnomaly.objects.filter(user=user)) is ordered by
\* '-anomaly_score' and every row has the score 0.8: `first` is the row of
\* each transaction the forest may label that comes first in the order the
\* database gives (0 without a row)
FirstRows(records) ==
    { first \in [Flaggable -> 0..Len(records)] :
        \A tx \in Flaggable :
            IF existing_of(records, tx) = {} THEN first[tx] = 0
            ELSE first[tx] \in existing_of(records, tx) }

RECURSIVE anomalies_list_of(_, _, _, _)
\* the loop over anomaly_results
anomalies_list_of(results, records, first, anomalies_list) ==
    IF results = <<>> THEN anomalies_list
    ELSE LET tx == Head(results)
             entry ==
                 IF first[tx] = 0
                 THEN [id |-> Len(anomalies_list) + 1, transaction |-> tx,
                       status |-> "new"]
                 ELSE [id |-> first[tx], transaction |-> tx,
                       status |-> IF records[first[tx]].is_verified THEN "reviewed"
                                  ELSE "new"]
         IN anomalies_list_of(Tail(results), records, first,
                              Append(anomalies_list, entry))

RECURSIVE save_new_anomalies(_, _, _)
\* the loop "Save new anomalies to database"
save_new_anomalies(anomalies_list, existing_tx_ids, records) ==
    IF anomalies_list = <<>> THEN records
    ELSE save_new_anomalies(
             Tail(anomalies_list), existing_tx_ids,
             IF Head(anomalies_list).transaction \notin existing_tx_ids
             THEN Append(records, [transaction |-> Head(anomalies_list).transaction,
                                   is_verified |-> FALSE])
             ELSE records)

\* dashboard
dashboard ==
    /\ \E anomalies \in detect_anomalies_outcomes(transactions_within(30)) :
          sa_response' =
              HandlerResponse("dashboard",
                  { "detect_anomalies", "generate_insights", "get_recommendations" },
                  [i \in DOMAIN anomalies |->
                      [id |-> anomalies[i], transaction |-> anomalies[i], status |-> "new"]])
    /\ UNCHANGED <<enable_ai_insights, sa_records>>
    /\ UNCHANGED not_sa

\* anomaly_detection
anomaly_detection(status, timeframe) ==
    LET days == IF timeframe = "all" THEN 9999 ELSE 30
        txs == transactions_within(days)
    IN /\ IF ~enable_ai_insights
          THEN /\ sa_response' = HandlerResponse("anomaly_detection", {}, NoAnomalies)
               /\ UNCHANGED sa_records
          ELSE \E anomaly_results \in detect_anomalies_outcomes(txs),
                  first \in FirstRows(sa_records) :
                  LET existing_tx_ids ==
                          { sa_records[i].transaction : i \in DOMAIN sa_records }
                      anomalies_list ==
                          anomalies_list_of(anomaly_results, sa_records, first, <<>>)
                      saved == save_new_anomalies(anomalies_list, existing_tx_ids,
                                                  sa_records)
                  IN /\ Len(saved) <= MaxRecords
                     /\ sa_records' = saved
                     /\ sa_response' =
                            HandlerResponse("anomaly_detection", { "detect_anomalies" },
                                IF status # "all"
                                THEN SelectSeq(anomalies_list,
                                               LAMBDA a : a.status = status)
                                ELSE anomalies_list)
       /\ UNCHANGED enable_ai_insights
       /\ UNCHANGED not_sa

\* get_spending_insights
get_spending_insights(timeframe) ==
    /\ sa_response' =
          IF Cardinality(transactions_within(days_of(timeframe))) < 5
          THEN HandlerResponse("get_spending_insights", {}, NoAnomalies)
          ELSE HandlerResponse("get_spending_insights", { "generate_insights" },
                               NoAnomalies)
    /\ UNCHANGED <<enable_ai_insights, sa_records>>
    /\ UNCHANGED not_sa

\* get_anomalies: with AI enabled and 5 transactions, a random sample of
\* len(transactions) // 5 transactions, numbered from 1
get_anomalies(timeframe) ==
    LET txs == transactions_within(days_of(timeframe))
    IN /\ IF ~enable_ai_insights \/ Cardinality(txs) < 5
          THEN sa_response' = HandlerResponse("get_anomalies", {}, NoAnomalies)
          ELSE \E sample \in { S \in SUBSET txs :
                                  Cardinality(S) = Cardinality(txs) \div 5 } :
                  sa_response' =
                      HandlerResponse("get_anomalies", { "random.sample" },
                          [i \in 1..Cardinality(sample) |->
                              [id |-> i, transaction |-> SortedSeq(sample)[i],
                               status |-> "new"]])
       /\ UNCHANGED <<enable_ai_insights, sa_records>>
       /\ UNCHANGED not_sa

\* get_budget_recommendations
get_budget_recommendations ==
    /\ sa_response' =
          IF ~enable_ai_insights
          THEN HandlerResponse("get_budget_recommendations", {}, NoAnomalies)
          ELSE HandlerResponse("get_budget_recommendations",
                               { "generate_budget_recommendations" }, NoAnomalies)
    /\ UNCHANGED <<enable_ai_insights, sa_records>>
    /\ UNCHANGED not_sa

\* spending_forecast
spending_forecast ==
    /\ sa_response' =
          IF ~enable_ai_insights \/ Cardinality(TxIds) < 10
          THEN HandlerResponse("spending_forecast", {}, NoAnomalies)
          ELSE HandlerResponse("spending_forecast", { "predict_monthly_spending" },
                               NoAnomalies)
    /\ UNCHANGED <<enable_ai_insights, sa_records>>
    /\ UNCHANGED not_sa

\* user_profile_edit: the form saves enable_ai_insights
sa_user_profile_edit(enable) ==
    /\ enable_ai_insights' = enable
    /\ sa_response' = HandlerResponse("user_profile_edit", {}, NoAnomalies)
    /\ UNCHANGED sa_records
    /\ UNCHANGED not_sa

\* The anomaly ids requests are made with: ids of rows, ids of
\* transactions, and one that is neither.
AnomalyIds == 1..3 \cup { NumTransactions + 1 }

\* Transaction.description and Transaction.category of the expenses
tx_description(id) ==
    CASE id = 1 -> << "U", "b", "e", "r" >>
      [] id = 2 -> << "u", "b", "e", "r", " ", "2" >>
      [] id = 3 -> << "b", "e", "e" >>
      [] OTHER -> << "r" >>

tx_category(id) == IF id <= 3 THEN 1 ELSE 2

description_prefix == 10

\* description[:10]
first_part(description) ==
    SubSeq(description, 1,
           IF Len(description) < description_prefix THEN Len(description)
           ELSE description_prefix)

lower_text(text) == [i \in DOMAIN text |-> lower(text[i])]

\* description__icontains
icontains(text, part) ==
    \E i \in 1..(Len(text) + 1) :
        /\ i + Len(part) - 1 <= Len(text)
        /\ SubSeq(lower_text(text), i, i + Len(part) - 1) = lower_text(part)

\* Transaction.objects.filter(description__icontains=, category=).exclude(id=)
similar_transactions(tx) ==
    { t \in TxIds \ { tx } :
        /\ icontains(tx_description(t), first_part(tx_description(tx)))
        /\ tx_category(t) = tx_category(tx) }

\* a JsonResponse about one anomaly
AnomalyResponse(handler, success, anomaly_id, status) ==
    [handler |-> handler, ran |-> {}, anomalies |-> NoAnomalies,
     success |-> success, id |-> anomaly_id, status |-> status]

\* get_anomaly_detail
get_anomaly_detail(anomaly_id) ==
    /\ sa_response' =
          IF anomaly_id \in DOMAIN sa_records
          THEN AnomalyResponse("get_anomaly_detail", TRUE, anomaly_id,
                   IF sa_records[anomaly_id].is_verified THEN "Reviewed"
                   ELSE "Pending Review")
          ELSE IF anomaly_id \in TxIds
               THEN AnomalyResponse("get_anomaly_detail", TRUE, anomaly_id,
                                    "Pending Review")
               ELSE AnomalyResponse("get_anomaly_detail", FALSE, anomaly_id,
                                    "Transaction not found")
    /\ UNCHANGED <<enable_ai_insights, sa_records>>
    /\ UNCHANGED not_sa

PostedStatuses == { "", "reviewed", "ignored", "new" }

\* `not status or status not in ['reviewed', 'ignored']`
invalid_status(status) == status = "" \/ status \notin { "reviewed", "ignored" }

\* update_anomaly_status
update_anomaly_status(anomaly_id, status) ==
    /\ sa_response' =
          AnomalyResponse("update_anomaly_status", ~invalid_status(status),
                          anomaly_id, status)
    /\ UNCHANGED <<enable_ai_insights, sa_records>>
    /\ UNCHANGED not_sa

\* mark_anomaly_reviewed; anomaly_id 0 is a request without one
mark_anomaly_reviewed(anomaly_id) ==
    /\ IF anomaly_id = 0
       THEN /\ sa_response' = AnomalyResponse("mark_anomaly_reviewed", FALSE,
                                              anomaly_id, "Anomaly ID is required")
            /\ UNCHANGED sa_records
       ELSE IF anomaly_id \in DOMAIN sa_records
            THEN /\ sa_records' = [sa_records EXCEPT ![anomaly_id].is_verified = TRUE]
                 /\ sa_response' = AnomalyResponse("mark_anomaly_reviewed", TRUE,
                                                   anomaly_id, "reviewed")
            ELSE IF anomaly_id \in TxIds
                 THEN /\ Len(sa_records) < MaxRecords
                      /\ sa_records' =
                            Append(sa_records,
                                   [transaction |-> anomaly_id, is_verified |-> TRUE])
                      /\ sa_response' = AnomalyResponse("mark_anomaly_reviewed", TRUE,
                                                        anomaly_id, "reviewed")
                 ELSE /\ sa_response' =
                            AnomalyResponse("mark_anomaly_reviewed", FALSE,
                                            anomaly_id, "Transaction not found")
                      /\ UNCHANGED sa_records
    /\ UNCHANGED enable_ai_insights
    /\ UNCHANGED not_sa

RECURSIVE verify_similar(_, _)
\* the loop over similar_transactions: the table after it, and whether
\* SpendingAnomaly.objects.get(transaction=similar_tx) raised
\* MultipleObjectsReturned
verify_similar(similar, records) ==
    IF similar = <<>> THEN [records |-> records, raised |-> FALSE]
    ELSE LET found == existing_of(records, Head(similar))
         IN IF Cardinality(found) > 1
            THEN [records |-> records, raised |-> TRUE]
            ELSE IF found = {}
                 THEN verify_similar(Tail(similar), records)
                 ELSE verify_similar(
                          Tail(similar),
                          [records EXCEPT
                              ![CHOOSE i \in found : TRUE].is_verified = TRUE])

\* ignore_similar_anomalies; anomaly_id 0 is a request without one
ignore_similar_anomalies(anomaly_id) ==
    /\ IF anomaly_id = 0
       THEN /\ sa_response' = AnomalyResponse("ignore_similar_anomalies", FALSE,
                                              anomaly_id, "Anomaly ID is required")
            /\ UNCHANGED sa_records
       ELSE IF anomaly_id \notin DOMAIN sa_records /\ anomaly_id \notin TxIds
            THEN /\ sa_response' =
                       AnomalyResponse("ignore_similar_anomalies", FALSE,
                                       anomaly_id, "Transaction not found")
                 /\ UNCHANGED sa_records
            ELSE LET bound == anomaly_id \in DOMAIN sa_records
                     transaction == IF bound THEN sa_records[anomaly_id].transaction
                                    ELSE anomaly_id
                     looped == verify_similar(
                                   SortedSeq(similar_transactions(transaction)),
                                   sa_records)
                 IN IF looped.raised
                    THEN /\ sa_records' = looped.records
                         /\ sa_response' =
                               AnomalyResponse("ignore_similar_anomalies", FALSE,
                                               anomaly_id, "MultipleObjectsReturned")
                    ELSE IF ~bound
                         THEN \* `if anomaly:` reads a name never assigned
                              /\ sa_records' = looped.records
                              /\ sa_response' =
                                    AnomalyResponse("ignore_similar_anomalies", FALSE,
                                                    anomaly_id, "UnboundLocalError")
                         ELSE /\ sa_records' =
                                    [looped.records EXCEPT
                                        ![anomaly_id].is_verified = TRUE]
                              /\ sa_response' =
                                    AnomalyResponse("ignore_similar_anomalies", TRUE,
                                                    anomaly_id, "ignored")
    /\ UNCHANGED enable_ai_insights
    /\ UNCHANGED not_sa

InitSa ==
    /\ enable_ai_insights = TRUE
    /\ sa_records = <<>>
    /\ sa_response = HandlerResponse("none", {}, NoAnomalies)

IdleSa ==
    /\ enable_ai_insights = TRUE
    /\ sa_records = <<>>
    /\ sa_response = HandlerResponse("none", {}, NoAnomalies)

Timeframes == { "30days", "6months", "all" }

NextHandlers ==
    \/ dashboard
    \/ \E status \in { "all", "new", "reviewed" }, timeframe \in { "30", "all" } :
          anomaly_detection(status, timeframe)
    \/ \E timeframe \in Timeframes : get_spending_insights(timeframe)
    \/ \E timeframe \in Timeframes : get_anomalies(timeframe)
    \/ get_budget_recommendations
    \/ spending_forecast
    \/ \E enable \in BOOLEAN : sa_user_profile_edit(enable)

\* the requests about the rows of SpendingAnomaly
NextAnomalies ==
    \/ \E status \in { "all", "reviewed" } : anomaly_detection(status, "all")
    \/ \E anomaly_id \in AnomalyIds : get_anomaly_detail(anomaly_id)
    \/ \E anomaly_id \in AnomalyIds, status \in PostedStatuses :
          update_anomaly_status(anomaly_id, status)
    \/ \E anomaly_id \in AnomalyIds \cup { 0 } : mark_anomaly_reviewed(anomaly_id)
    \/ \E anomaly_id \in AnomalyIds \cup { 0 } : ignore_similar_anomalies(anomaly_id)

(***************************************************************************)
(* transaction_create and transaction_delete (financial/views.py)          *)
(*                                                                         *)
(* transaction.account and transaction.to_account are two objects, each    *)
(* read from the table before the first save, also when they are the same  *)
(* account; a save writes the balance of its object.                       *)
(***************************************************************************)
Accounts == { 1, 2 }

\* The most transactions created.
MaxCreated == 2

TransactionTypes == { "income", "expense", "transfer" }

PostedTransactionAmounts == { 50, 70 }

NoTransaction ==
    [id |-> None_id, account |-> None_id, to_account |-> None_id,
     transaction_type |-> "none", amount |-> 0]

\* "Update account balances": the balances after transaction.to_account.save()
\* and transaction.account.save()
balance_after_create(b, tx) ==
    LET account_balance ==
            IF tx.transaction_type = "income" THEN b[tx.account] + tx.amount
            ELSE b[tx.account] - tx.amount
        to_account_saved ==
            IF tx.transaction_type = "transfer"
            THEN [b EXCEPT ![tx.to_account] = b[tx.to_account] + tx.amount]
            ELSE b
    IN [to_account_saved EXCEPT ![tx.account] = account_balance]

balance_after_delete_of_source(b, tx) ==
    [b EXCEPT ![tx.account] =
        IF tx.transaction_type = "income" THEN b[tx.account] - tx.amount
        ELSE b[tx.account] + tx.amount]

\* "Handle updating account balance before deleting": the balances after
\* to_account.save() and account.save()
balance_after_delete(b, tx) ==
    LET account_balance ==
            IF tx.transaction_type = "income" THEN b[tx.account] - tx.amount
            ELSE b[tx.account] + tx.amount
        to_account_saved ==
            IF tx.transaction_type = "transfer" /\ tx.to_account # None_id
            THEN [b EXCEPT ![tx.to_account] = b[tx.to_account] - tx.amount]
            ELSE b
    IN [to_account_saved EXCEPT ![tx.account] = account_balance]

\* transaction_create: a POST of a valid form; to_account is None_id when
\* the field is missing, and may name no account of the user
transaction_create(account, type, amount, to_account) ==
    /\ lg_next_id <= MaxCreated
    /\ IF type = "transfer" /\ to_account \notin Accounts
       THEN \* the form is shown again, or 404
            /\ lg_last' = [op |-> "not created", tx |-> NoTransaction, before |-> balance]
            /\ UNCHANGED <<balance, lg_transactions, lg_next_id>>
       ELSE LET tx == [id |-> lg_next_id, account |-> account,
                       to_account |-> IF type = "transfer" THEN to_account ELSE None_id,
                       transaction_type |-> type, amount |-> amount]
            IN /\ lg_transactions' = lg_transactions \cup { tx }
               /\ lg_next_id' = lg_next_id + 1
               /\ balance' = balance_after_create(balance, tx)
               /\ lg_last' = [op |-> "created", tx |-> tx, before |-> balance]
    /\ UNCHANGED not_lg

\* transaction_delete: a POST for a transaction of the user
transaction_delete(tx) ==
    /\ tx \in lg_transactions
    /\ balance' = balance_after_delete(balance, tx)
    /\ lg_transactions' = lg_transactions \ { tx }
    /\ lg_last' =
          [op |-> IF lg_last.op = "created" /\ lg_last.tx = tx
                  THEN "created and deleted" ELSE "deleted",
           tx |-> tx,
           before |-> IF lg_last.op = "created" /\ lg_last.tx = tx
                      THEN lg_last.before ELSE balance]
    /\ UNCHANGED lg_next_id
    /\ UNCHANGED not_lg

\* transaction_delete: a GET shows the confirmation page
transaction_delete_get(tx) ==
    /\ tx \in lg_transactions
    /\ lg_last' = [op |-> "confirm", tx |-> tx, before |-> balance]
    /\ UNCHANGED <<balance, lg_transactions, lg_next_id>>
    /\ UNCHANGED not_lg

InitLg ==
    /\ balance \in [Accounts -> { 0, 100 }]
    /\ lg_transactions = {}
    /\ lg_next_id = 1
    /\ lg_last = [op |-> "none", tx |-> NoTransaction, before |-> balance]

IdleLg ==
    /\ balance = [a \in Accounts |-> 0]
    /\ lg_transactions = {}
    /\ lg_next_id = 1
    /\ lg_last = [op |-> "none", tx |-> NoTransaction, before |-> balance]

NextLedger ==
    \/ \E account \in Accounts, type \in TransactionTypes,
          amount \in PostedTransactionAmounts, to_account \in Accounts \cup { None_id, 3 } :
          transaction_create(account, type, amount, to_account)
    \/ \E tx \in lg_transactions : transaction_delete(tx)
    \/ \E tx \in lg_transactions : transaction_delete_get(tx)

(***************************************************************************)
(* savings_goal_add_contribution (financial/views.py)                      *)
(*                                                                         *)
(* A posted field is a sequence of characters, or Missing.                 *)
(***************************************************************************)
Missing == << "<missing>" >>

\* The most requests made.
MaxRequests == 2

Digits == << "0", "1", "2", "3", "4", "5", "6", "7", "8", "9" >>

is_digit(c) == \E i \in DOMAIN Digits : Digits[i] = c

digit_value(c) == (CHOOSE i \in DOMAIN Digits : Digits[i] = c) - 1

RECURSIVE digits_value(_, _)
digits_value(str, value) ==
    IF str = <<>> THEN value
    ELSE digits_value(Tail(str), 10 * value + digit_value(Head(str)))

all_digits(str) == str # <<>> /\ \A i \in DOMAIN str : is_digit(str[i])

\* float(amount_str): the number, or ValueError
float_of(str) ==
    IF all_digits(str) THEN [ok |-> TRUE, value |-> digits_value(str, 0)]
    ELSE IF str # <<>> /\ Head(str) = "-" /\ all_digits(Tail(str))
         THEN [ok |-> TRUE, value |-> 0 - digits_value(Tail(str), 0)]
         ELSE [ok |-> FALSE, value |-> 0]

PostedAmountFields ==
    { Missing, <<>>, <<"a","b","c">>, <<"0">>, <<"-","5">>, <<"5","0">>, <<"7">> }

PostedAccountFields == { Missing, <<>>, <<"1">>, <<"2">>, <<"3">>, <<"x">> }

\* the accounts of the user
UserAccounts == { 1, 2 }

account_found_if_number(account_id) == float_of(account_id).ok

\* get_object_or_404(Account, id=account_id, user=request.user) finds a row
account_found(account_id) ==
    float_of(account_id).ok /\ float_of(account_id).value \in UserAccounts

\* `not amount_str`, `not account_id`
is_empty(field) == field = Missing \/ field = <<>>

Request(n, method, amount, account, success) ==
    [n |-> n, method |-> method, amount |-> amount, account |-> account,
     success |-> success]

\* savings_goal_add_contribution
savings_goal_add_contribution(method, amount_str, account_id) ==
    /\ sg_request.n < MaxRequests
    /\ IF method # "POST" \/ is_empty(amount_str) \/ ~float_of(amount_str).ok
          \/ float_of(amount_str).value <= 0
       THEN \* the form is shown (again)
            /\ sg_request' = Request(sg_request.n + 1, method, amount_str, account_id, FALSE)
            /\ UNCHANGED <<goal_current_amount, sg_balance, sg_transactions>>
       ELSE LET amount == float_of(amount_str).value
            IN /\ goal_current_amount' = goal_current_amount + amount
               /\ IF ~is_empty(account_id) /\ account_found(account_id)
                  THEN LET account == float_of(account_id).value
                       IN /\ sg_transactions' =
                                Append(sg_transactions,
                                       [account |-> account, amount |-> amount,
                                        transaction_type |-> "expense"])
                          /\ sg_balance' =
                                [sg_balance EXCEPT ![account] = @ - amount]
                  ELSE \* no account given, or the lookup raised and the
                       \* exception was caught
                       UNCHANGED <<sg_balance, sg_transactions>>
               /\ sg_request' = Request(sg_request.n + 1, method, amount_str, account_id, TRUE)
    /\ UNCHANGED not_sg

InitSg ==
    /\ goal_current_amount \in { 0, 20 }
    /\ sg_balance = [a \in UserAccounts |-> 100]
    /\ sg_transactions = <<>>
    /\ sg_request = Request(0, "none", Missing, Missing, FALSE)

IdleSg ==
    /\ goal_current_amount = 0
    /\ sg_balance = [a \in UserAccounts |-> 100]
    /\ sg_transactions = <<>>
    /\ sg_request = Request(0, "none", Missing, Missing, FALSE)

NextGoals ==
    \E method \in { "GET", "POST" }, amount_str \in PostedAmountFields,
       account_id \in PostedAccountFields :
        savings_goal_add_contribution(method, amount_str, account_id)

(***************************************************************************)
(* TransactionCategorizer.train called on the categorized transactions of  *)
(* a user, on a new object or on the object of the call before, next to    *)
(* the handler that writes categories                                      *)
(***************************************************************************)
\* The most calls of train.
MaxTrainCalls == 1

NewCategorizer == [model |-> NoModel, categories |-> << >>]

NoCall ==
    [n |-> 0, self |-> NewCategorizer, file |-> NoFile, transactions |-> << >>,
     force_retrain |-> FALSE, ret |-> "none"]

\* categorizer.train(training_transactions, force_retrain)
train(new_object, user, force_retrain) ==
    /\ tr_call.n < MaxTrainCalls
    /\ LET self == IF new_object THEN NewCategorizer ELSE tr_self
           txs == rows(transactions, training_transactions_of(transactions, user))
       IN \E trained \in train_outcomes(self, model_file, txs, force_retrain) :
             /\ tr_self' = trained.self
             /\ model_file' = trained.file
             /\ tr_call' = [n |-> tr_call.n + 1, self |-> self, file |-> model_file,
                            transactions |-> txs, force_retrain |-> force_retrain,
                            ret |-> trained.ret]
    /\ UNCHANGED <<cz_self, cz_description, cz_result, cz_pc>>
    /\ UNCHANGED <<vars_mw, vars_ac, vars_an, vars_fc, vars_br, vars_gr, vars_bp,
                   vars_sa, vars_lg, vars_sg, vars_ct>>

\* The tables train is tried on: those with one uncategorized transaction.
TrainingTables ==
    { table \in InitialTables :
        Cardinality(uncategorized_of(table, "alice")) = 1 }

\* The model files train is tried on: none, an unreadable one, and one
\* saved by an earlier training on category 1.
TrainingFiles ==
    { NoFile, Corrupt } \cup
    { SavedModel(m, categories_of({1})) : m \in Models({1}) }

\* The objects train is called on: a new one, and one that has loaded a
\* model before.
TrainingObjects ==
    { NewCategorizer } \cup
    { [model |-> m, categories |-> categories_of({1})] : m \in Models({1}) }

InitTr ==
    /\ tr_self \in TrainingObjects
    /\ tr_call = NoCall

IdleTr ==
    /\ tr_self = NewCategorizer
    /\ tr_call = NoCall

NextTraining ==
    \/ \E new_object \in BOOLEAN, force_retrain \in BOOLEAN :
          train(new_object, "alice", force_retrain)
    \/ \E user \in Users : auto_categorize_transactions(user)

(***************************************************************************)
(* category_create and category_edit (financial/views.py)                  *)
(***************************************************************************)
\* The most categories alice creates.
MaxCategories == 2

PostedNames == { Missing, <<>>, << "U" >>, << "u" >>, << "B" >> }

\* data.get('type'); "" when the body has none
PostedTypes == { "", "expense", "income", "other" }

PostedCategoryIds == { 1, 2, MaxCategories + 2 }

CATEGORY_TYPES == { "expense", "income" }

names_equal(a, b) == a = b

\* name__iexact
iexact(a, b) == lower_text(a) = lower_text(b)

\* Category.objects.filter(user=request.user, name__iexact=name)
\*     .exclude(id=category_id).exists(); category_id 0 excludes no row
name_exists(table, user, name, category_id) ==
    \E i \in DOMAIN table :
        /\ i # category_id
        /\ table[i].user = user
        /\ iexact(table[i].name, name)

CategoryRequest(handler, user, id, name, type, success) ==
    [handler |-> handler, user |-> user, id |-> id, name |-> name, type |-> type,
     success |-> success]

\* the checks category_create and category_edit share
category_data_rejected(table, user, name, type, category_id) ==
    \/ is_empty(name)
    \/ type = ""
    \/ type \notin CATEGORY_TYPES
    \/ name_exists(table, user, name, category_id)

\* category_create
category_create(user, name, type) ==
    /\ Cardinality({ i \in DOMAIN category_table : category_table[i].user = user })
          < MaxCategories
    /\ IF category_data_rejected(category_table, user, name, type, 0)
       THEN /\ ct_request' = CategoryRequest("category_create", user, 0, name, type, FALSE)
            /\ UNCHANGED category_table
       ELSE /\ category_table' =
                  Append(category_table, [name |-> name, type |-> type, user |-> user])
            /\ ct_request' = CategoryRequest("category_create", user, 0, name, type, TRUE)
    /\ UNCHANGED not_ct

\* category_edit
category_edit(user, category_id, name, type) ==
    /\ IF \/ category_id \notin DOMAIN category_table
          \/ category_table[category_id].user # user
       THEN \* get_object_or_404 raises Http404
            /\ ct_request' =
                  CategoryRequest("category_edit", user, category_id, name, type, FALSE)
            /\ UNCHANGED category_table
       ELSE IF category_data_rejected(category_table, user, name, type, category_id)
            THEN /\ ct_request' =
                       CategoryRequest("category_edit", user, category_id, name, type,
                                       FALSE)
                 /\ UNCHANGED category_table
            ELSE /\ category_table' =
                       [category_table EXCEPT ![category_id].name = name,
                                              ![category_id].type = type]
                 /\ ct_request' =
                       CategoryRequest("category_edit", user, category_id, name, type,
                                       TRUE)
    /\ UNCHANGED not_ct

NoCategoryRequest == CategoryRequest("none", "alice", 0, Missing, "", FALSE)

\* The table at the start: empty, or with a category of bob.
InitCt ==
    /\ category_table \in
          { << >>, << [name |-> << "U" >>, type |-> "expense", user |-> "bob"] >> }
    /\ ct_request = NoCategoryRequest

IdleCt ==
    /\ category_table = << >>
    /\ ct_request = NoCategoryRequest

NextCategories ==
    \/ \E name \in PostedNames, type \in PostedTypes :
          category_create("alice", name, type)
    \/ \E category_id \in PostedCategoryIds, name \in PostedNames,
          type \in PostedTypes :
          category_edit("alice", category_id, name, type)

(***************************************************************************)
(* The specifications                                                      *)
(***************************************************************************)
InitMiddleware == InitMw /\ IdleCz /\ IdleAc /\ IdleAn /\ IdleFc /\ IdleBr /\ IdleGr /\ IdleBp /\ IdleSa /\ IdleLg /\ IdleSg /\ IdleTr /\ IdleCt
SpecMiddleware == InitMiddleware /\ [][NextMiddleware]_vars

InitPredict == InitCz /\ IdleMw /\ IdleAc /\ IdleAn /\ IdleFc /\ IdleBr /\ IdleGr /\ IdleBp /\ IdleSa /\ IdleLg /\ IdleSg /\ IdleTr /\ IdleCt
SpecPredict == InitPredict /\ [][NextPredict]_vars

InitCategorize ==
    /\ InitAc
    /\ IdleMw
    /\ IdleAn
    /\ IdleFc
    /\ IdleBr
    /\ IdleGr
    /\ IdleBp
    /\ IdleSa
    /\ IdleLg
    /\ IdleSg /\ IdleTr /\ IdleCt
    /\ cz_self = [model |-> NoModel, categories |-> << >>]
    /\ cz_description = <<>>
    /\ cz_result = NoPrediction
    /\ cz_pc = "done"
SpecCategorize == InitCategorize /\ [][NextCategorize]_vars

InitTraining ==
    /\ transactions \in TrainingTables
    /\ enable_ai_categorization = [u \in Users |-> TRUE]
    /\ ac_user = "alice"
    /\ ac_response = Response("none", FALSE, FALSE, 0)
    /\ model_file \in TrainingFiles
    /\ InitTr
    /\ IdleMw /\ IdleAn /\ IdleFc /\ IdleBr /\ IdleGr /\ IdleBp /\ IdleSa /\ IdleLg
    /\ IdleSg
    /\ cz_self = NewCategorizer
    /\ cz_description = <<>>
    /\ cz_result = NoPrediction
    /\ cz_pc = "done"
    /\ IdleCt
SpecTraining == InitTraining /\ [][NextTraining]_vars

InitAnomaly == InitAn /\ IdleMw /\ IdleCz /\ IdleAc /\ IdleFc /\ IdleBr /\ IdleGr /\ IdleBp /\ IdleSa /\ IdleLg /\ IdleSg /\ IdleTr /\ IdleCt
SpecAnomaly == InitAnomaly /\ [][NextAnomaly]_vars

InitForecast == InitFc /\ IdleMw /\ IdleCz /\ IdleAc /\ IdleAn /\ IdleBr /\ IdleGr /\ IdleBp /\ IdleSa /\ IdleLg /\ IdleSg /\ IdleTr /\ IdleCt
SpecForecast == InitForecast /\ [][NextForecast]_vars

InitBudgetRec == InitBr /\ IdleMw /\ IdleCz /\ IdleAc /\ IdleAn /\ IdleFc /\ IdleGr /\ IdleBp /\ IdleSa /\ IdleLg /\ IdleSg /\ IdleTr /\ IdleCt
SpecBudgetRec == InitBudgetRec /\ [][NextBudgetRec]_vars

InitGetRecommendations ==
    InitGr /\ IdleMw /\ IdleCz /\ IdleAc /\ IdleAn /\ IdleFc /\ IdleBr /\ IdleBp /\ IdleSa /\ IdleLg /\ IdleSg /\ IdleTr /\ IdleCt
SpecGetRecommendations == InitGetRecommendations /\ [][NextGetRecommendations]_vars

InitPerformance ==
    InitBp /\ IdleMw /\ IdleCz /\ IdleAc /\ IdleAn /\ IdleFc /\ IdleBr /\ IdleGr /\ IdleSa /\ IdleLg /\ IdleSg /\ IdleTr /\ IdleCt
SpecPerformance == InitPerformance /\ [][NextPerformance]_vars

InitHandlers ==
    InitSa /\ IdleMw /\ IdleCz /\ IdleAc /\ IdleAn /\ IdleFc /\ IdleBr /\ IdleGr /\ IdleBp
    /\ IdleLg /\ IdleSg /\ IdleTr /\ IdleCt
SpecHandlers == InitHandlers /\ [][NextHandlers]_vars

SpecAnomalies == InitHandlers /\ [][NextAnomalies]_vars

InitLedger ==
    InitLg /\ IdleMw /\ IdleCz /\ IdleAc /\ IdleAn /\ IdleFc /\ IdleBr /\ IdleGr /\ IdleBp
    /\ IdleSa /\ IdleSg /\ IdleTr /\ IdleCt
SpecLedger == InitLedger /\ [][NextLedger]_vars

InitGoals ==
    InitSg /\ IdleMw /\ IdleCz /\ IdleAc /\ IdleAn /\ IdleFc /\ IdleBr /\ IdleGr /\ IdleBp
    /\ IdleSa /\ IdleLg /\ IdleTr /\ IdleCt
SpecGoals == InitGoals /\ [][NextGoals]_vars

InitCategories ==
    InitCt /\ IdleMw /\ IdleCz /\ IdleAc /\ IdleAn /\ IdleFc /\ IdleBr /\ IdleGr /\ IdleBp
    /\ IdleSa /\ IdleLg /\ IdleSg /\ IdleTr
SpecCategories == InitCategories /\ [][NextCategories]_vars

(***************************************************************************)
(* The claims                                                              *)
(***************************************************************************)

\* The pages the middleware's list names: the home page, the login, logout
\* and signup pages, the admin login and logout, the favicon, and anything
\* under /static/ or /media/.
ExemptedPage(p) ==
    \/ p = exempt_urls[1]
    \/ p \in { exempt_urls[i] : i \in 2..6 }
    \/ StartsWith(p, exempt_urls[7])
    \/ StartsWith(p, exempt_urls[8])
    \/ p = exempt_urls[9]

\* C1: an unauthenticated request to a page that is not exempted is answered
\* with the redirect to the login page; a request of an authenticated user
\* or to an exempted page passes through (None).
C1_RequireLogin ==
    mw_response # "pending" =>
        IF ~user_is_authenticated /\ ~ExemptedPage(path_info)
        THEN mw_response = "redirect_to_login"
        ELSE mw_response = "None"

\* The model predict works with: the object's own, else the one in the file.
C3_available_model ==
    IF cz_self.model # NoModel THEN cz_self.model
    ELSE IF model_file.kind = "Saved" THEN model_file.model
    ELSE NoModel

\* C3: predict returns (None, None, 0) when no model is available, when the
\* preprocessed description is empty, or when every class probability is
\* below 0.35; in every other case it returns a class of the highest
\* probability with that probability, which is at least 0.35.
C3_Predict ==
    [][ (cz_pc = "call" /\ cz_pc' = "done") =>
          LET model == C3_available_model
              text == preprocess_text(cz_description)
          IN IF model = NoModel \/ text = <<>>
             THEN cz_result' = NoPrediction
             ELSE LET p == model.proba[text]
                  IN IF \A i \in DOMAIN p : p[i] < 35
                     THEN cz_result' = NoPrediction
                     ELSE /\ \E i \in DOMAIN p :
                               /\ \A j \in DOMAIN p : p[j] <= p[i]
                               /\ cz_result'[1] = model.classes[i]
                               /\ cz_result'[3] = p[i]
                          /\ cz_result'[3] >= 35 ]_vars

\* predict has answered with a class whose probability is exactly 0.35,
\* from a model it had to load from the file.
C3_Witness ==
    /\ cz_pc = "done"
    /\ cz_result[1] # None_id
    /\ cz_result[3] = 35
    /\ model_file.kind = "Saved"

\* The transactions a step has changed.
C2_changed == { i \in DOMAIN transactions : transactions'[i] # transactions[i] }

\* C2: auto_categorize_transactions changes only transactions of the
\* requesting user that had no category: each one it changes receives a
\* category and ai_categorized = True and is otherwise as before, every
\* other transaction is unchanged, and categorized_count is the number of
\* transactions changed (a response without a count changes none).
C2_AutoCategorizeFrame ==
    [][ /\ DOMAIN transactions' = DOMAIN transactions
        /\ \A i \in C2_changed :
              /\ transactions[i].user = ac_user'
              /\ transactions[i].category = None_id
              /\ transactions'[i].category # None_id
              /\ transactions'[i].ai_categorized = TRUE
              /\ transactions'[i] =
                    [transactions[i] EXCEPT !.category = transactions'[i].category,
                                            !.ai_categorized = TRUE]
        /\ IF ac_response'.has_count
           THEN ac_response'.categorized_count = Cardinality(C2_changed)
           ELSE C2_changed = {} ]_vars

\* A request of alice has categorized one of her transactions and left
\* another of hers, and bob's, without a category.
C2_Witness ==
    /\ ac_response.status = "categorized"
    /\ ac_response.categorized_count = 1
    /\ \E i, j, k \in DOMAIN transactions :
          /\ transactions[i].user = "alice" /\ transactions[i].ai_categorized
          /\ transactions[j].user = "alice" /\ transactions[j].category = None_id
          /\ transactions[k].user = "bob" /\ transactions[k].category = None_id

\* The transaction of the list handed to the analyzer with this id.
C5_given(id) == { an_transactions[i] : i \in { j \in DOMAIN an_transactions :
                                                an_transactions[j].id = id } }

\* C4: a detection made for a user with sensitivity None uses the minimum
\* amount stored in that user's profile: no expense below
\* anomaly_min_amount is reported.
C4_UsesProfileMinAmount ==
    (an_pc = "detected" /\ an_user # NoUser /\ an_sensitivity = NoSensitivity) =>
        \A k \in DOMAIN an_result :
            \A tx \in C5_given(an_result[k]) :
                tx.amount >= anomaly_min_amount[an_user]

\* C5: detect_spending_anomalies returns the empty list when fewer than 10
\* of the transactions given are expenses; every id it returns is the id of
\* one of the expenses given, whose amount is at least the minimum amount
\* in force; no income and no transfer is reported.
C5_AnomaliesAreLargeExpenses ==
    an_pc = "detected" =>
        /\ Cardinality({ i \in DOMAIN an_transactions :
                          an_transactions[i].transaction_type = "expense" }) < 10
              => an_result = <<>>
        /\ \A k \in DOMAIN an_result :
              /\ C5_given(an_result[k]) # {}
              /\ \A tx \in C5_given(an_result[k]) :
                    /\ tx.transaction_type = "expense"
                    /\ tx.transaction_type \notin { "income", "transfer" }
                    /\ tx.amount >= min_amount_in_force(an_user, anomaly_min_amount)

\* A detection over ten or more expenses has reported an expense of exactly
\* the minimum amount, while expenses below it were in the list.
C5_Witness ==
    /\ an_pc = "detected"
    /\ Len(an_result) = MaxFlagged
    /\ \E k \in DOMAIN an_result :
          \E tx \in C5_given(an_result[k]) :
              tx.amount = min_amount_in_force(an_user, anomaly_min_amount)
    /\ \E i \in DOMAIN an_transactions :
          /\ an_transactions[i].transaction_type = "expense"
          /\ an_transactions[i].amount < min_amount_in_force(an_user, anomaly_min_amount)

\* The expenses among the transactions given, and the months that have one.
C6_expenses == { i \in DOMAIN fc_transactions :
                   fc_transactions[i].transaction_type = "expense" }
C6_months == { fc_transactions[i].month : i \in C6_expenses }

RECURSIVE C6_sum(_)
C6_sum(ids) ==
    IF ids = {} THEN 0
    ELSE LET i == CHOOSE j \in ids : TRUE
         IN fc_transactions[i].amount + C6_sum(ids \ {i})

\* The three latest months that have an expense.
C6_last_three ==
    { m \in C6_months : Cardinality({ n \in C6_months : n > m }) < 3 }

\* C6: predict_monthly_spending returns no prediction when there are fewer
\* than 3 expenses or the expenses fall in fewer than 3 calendar months;
\* otherwise exactly months_ahead predictions, the i-th for the i-th
\* calendar month after the latest month with an expense, and with fewer
\* than 6 months of history every amount is the mean of the last three
\* monthly totals.
C6_Forecast ==
    fc_pc = "done" =>
        IF Cardinality(C6_expenses) < 3 \/ Cardinality(C6_months) < 3
        THEN fc_result = <<>>
        ELSE LET latest == CHOOSE m \in C6_months : \A n \in C6_months : n <= m
             IN /\ Len(fc_result) = fc_months_ahead
                /\ \A i \in 1..Len(fc_result) :
                      /\ fc_result[i].month = strftime_b_Y(latest + i)
                      /\ Cardinality(C6_months) < 6 =>
                            3 * fc_result[i].amount[1] =
                              fc_result[i].amount[2] *
                                C6_sum({ j \in C6_expenses :
                                           fc_transactions[j].month \in C6_last_three })

\* A forecast of three months made in November over four months of
\* history: it runs over the end of the year.
C6_Witness ==
    /\ fc_pc = "done"
    /\ Len(fc_result) = 3
    /\ Cardinality(C6_months) = 4
    /\ fc_result[1].month = <<"Dec", 2023>>
    /\ fc_result[3].month = <<"Feb", 2024>>
    /\ fc_result[1].amount[1] > 0


(***************************************************************************)
(* generate_budget_recommendations: what a call reports                    *)
(***************************************************************************)
\* the expenses with a category among the transactions given
C7_expenses ==
    { i \in DOMAIN br_transactions :
        /\ br_transactions[i].transaction_type = "expense"
        /\ br_transactions[i].category # NoCategory }

RECURSIVE C7_sum(_)
C7_sum(is) ==
    IF is = {} THEN 0
    ELSE LET i == CHOOSE j \in is : TRUE
         IN br_transactions[i].amount + C7_sum(is \ {i})

\* the total spent on a category, and the number of months spent in
C7_total(category) ==
    C7_sum({ i \in C7_expenses : br_transactions[i].category = category })

C7_months ==
    Cardinality({ <<br_transactions[i].date.year, br_transactions[i].date.month>> :
                    i \in C7_expenses })

C7_categories == { br_transactions[i].category : i \in C7_expenses }

\* the entries reported for a category, and those with one adjustment
C7_reported(category) ==
    { i \in DOMAIN br_result.recommendations :
        br_result.recommendations[i].category = category }

C7_reported_as(category, adjustment) ==
    \E i \in C7_reported(category) :
        br_result.recommendations[i].adjustment = adjustment

\* the amounts of the budgets of a category
C7_budgets(category) ==
    { i \in DOMAIN br_budgets : br_budgets[i].category = category }

\* the budget of a category that is last in the list given, as an amount;
\* 0 without a budget
C7_last_amount(category) ==
    IF C7_budgets(category) = {} THEN 0
    ELSE br_budgets[CHOOSE i \in C7_budgets(category) :
                        \A j \in C7_budgets(category) : j <= i].amount

\* what is reported for a category compared to the budget amount c > 0
C7_thresholds(category, c) ==
    LET T == C7_total(category)
        u == C7_months
    IN /\ C7_reported_as(category, "increase") <=> 11 * T > 12 * c * u
       /\ C7_reported_as(category, "decrease") <=> 100 * c * u > 132 * T
       /\ ~C7_reported_as(category, "new")
       /\ (~(11 * T > 12 * c * u) /\ ~(100 * c * u > 132 * T))
              => C7_reported(category) = {}

\* what holds of every category, whatever its budgets
C7_common(category) ==
    LET T == C7_total(category)
        u == C7_months
    IN /\ Cardinality(C7_reported(category)) <= 1
       /\ T < 100 * u => C7_reported(category) = {}
       /\ \A i \in C7_reported(category) :
             LET r == br_result.recommendations[i].recommended_amount
             IN 10 * u * r[1] = 11 * T * r[2]

C8_window ==
    LET recent == { i \in C7_expenses :
                      toordinal(br_transactions[i].date) >= toordinal(today) - 90 }
    IN IF recent = {} THEN C7_expenses ELSE recent

\* C8: the average monthly spending of every category reported is computed
\* from the transactions of the last 90 days only, and from the full history
\* only when no transaction is that recent.
C8_AverageOverRecentWindow ==
    (br_pc = "done" /\ br_result.success) =>
        \A i \in DOMAIN br_result.recommendations :
            LET r == br_result.recommendations[i]
                T == C7_sum({ j \in C8_window :
                                br_transactions[j].category = r.category })
                u == Cardinality({ <<br_transactions[j].date.year,
                                     br_transactions[j].date.month>> : j \in C8_window })
            IN r.average_spending[1] * u = T * r.average_spending[2]


(***************************************************************************)
(* get_recommendations: what a call returns                                *)
(***************************************************************************)
\* the expenses of the user of the last 90 days
C9_recent ==
    { i \in DOMAIN gr_transactions :
        /\ gr_transactions[i].user = gr_user
        /\ gr_transactions[i].transaction_type = "expense"
        /\ toordinal(gr_transactions[i].date) >= toordinal(today) - 90
        /\ toordinal(gr_transactions[i].date) <= toordinal(today) }

RECURSIVE C9_sum(_)
C9_sum(is) ==
    IF is = {} THEN 0
    ELSE LET i == CHOOSE j \in is : TRUE
         IN gr_transactions[i].amount + C9_sum(is \ {i})

\* the user has a budget on the category for the current month
C9_has_budget(category) ==
    \E i \in DOMAIN gr_budgets :
        /\ gr_budgets[i].user = gr_user
        /\ gr_budgets[i].category = category
        /\ gr_budgets[i].start_date.month = today.month
        /\ gr_budgets[i].start_date.year = today.year

\* C9: with at least 5 expenses in the last 90 days the list returned has a
\* 'new_budget' entry for each of the top five spending categories of the
\* user that has no budget for the current month, with suggested_amount 90%
\* of the average expense amount of the category; with fewer it is a single
\* 'info' entry; with no user it is empty.  (The categories drawn are at
\* most five, so every category spent on is among the top five.)
C9_GetRecommendations ==
    gr_pc = "done" =>
        IF gr_user = NoUser THEN gr_result = <<>>
        ELSE IF Cardinality(C9_recent) < 5
             THEN Len(gr_result) = 1 /\ gr_result[1].type = "info"
             ELSE \A category \in { gr_transactions[i].category : i \in C9_recent } :
                    (category # None_id /\ ~C9_has_budget(category)) =>
                        LET of_category ==
                                { i \in C9_recent : gr_transactions[i].category = category }
                        IN \E k \in DOMAIN gr_result :
                              /\ gr_result[k].type = "new_budget"
                              /\ gr_result[k].category_id = category
                              /\ gr_result[k].suggested_amount[1] * 10 * Cardinality(of_category)
                                    = 9 * C9_sum(of_category) * gr_result[k].suggested_amount[2]


(***************************************************************************)
(* analyze_budget_performance: the status reported                         *)
(***************************************************************************)
\* the expenses given that are in the category of the budget
C10_expenses ==
    { i \in DOMAIN bp_transactions :
        /\ bp_transactions[i].transaction_type = "expense"
        /\ bp_transactions[i].category = bp_budget.category }

RECURSIVE C10_sum(_)
C10_sum(is) ==
    IF is = {} THEN 0
    ELSE LET i == CHOOSE j \in is : TRUE
         IN bp_transactions[i].amount + C10_sum(is \ {i})

\* C10: given a budget and at least one expense in its category, the status
\* is 'over_budget' exactly when the total spent exceeds the budget amount;
\* otherwise 'at_risk' when at least 90% of the budget is used, 'warning'
\* when at least 75% is used and 'on_track' below 75%; remaining is the
\* budget amount minus the total spent.
C10_StatusByTotalSpent ==
    (bp_pc = "done" /\ bp_budget # NoBudget /\ C10_expenses # {}) =>
        LET spent == C10_sum(C10_expenses)
            amount == bp_budget.amount
        IN /\ bp_result.success
           /\ bp_result.remaining = amount - spent
           /\ bp_result.status =
                 (IF spent > amount THEN "over_budget"
                  ELSE IF 100 * spent >= 90 * amount THEN "at_risk"
                  ELSE IF 100 * spent >= 75 * amount THEN "warning"
                  ELSE "on_track")


(***************************************************************************)
(* The handlers of a user who has switched the AI insights off             *)
(***************************************************************************)
C11_handlers ==
    { "dashboard", "anomaly_detection", "get_spending_insights", "get_anomalies",
      "get_budget_recommendations", "spending_forecast" }

\* C11: a request to an analytics handler made while enable_ai_insights is
\* False runs no anomaly detection, insight generation, recommendation or
\* forecast, returns no anomalies and creates no SpendingAnomaly row.
C11_NoAiWhenDisabled ==
    [][ (~enable_ai_insights /\ sa_response'.handler \in C11_handlers) =>
            /\ sa_response'.ran = {}
            /\ sa_response'.anomalies = <<>>
            /\ sa_records' = sa_records ]_vars_sa


(***************************************************************************)
(* transaction_create, then transaction_delete of the same transaction     *)
(***************************************************************************)
\* C12: a transaction of any type created with transaction_create and then
\* deleted with transaction_delete leaves the balance of every account at
\* the value it had before the creation.
C12_CreateDeleteRestores ==
    lg_last.op = "created and deleted" =>
        \A a \in Accounts : balance[a] = lg_last.before[a]

\* A transfer from an account to the same account created and deleted,
\* while an earlier transaction is kept.
C12_Witness ==
    /\ lg_last.op = "created and deleted"
    /\ lg_last.tx.transaction_type = "transfer"
    /\ lg_last.tx.to_account = lg_last.tx.account
    /\ lg_transactions # {}


(***************************************************************************)
(* savings_goal_add_contribution: what a request changes                   *)
(***************************************************************************)
\* the request of a step is a POST with an account id, reported successful
C13_success_with_account ==
    /\ sg_request'.n # sg_request.n
    /\ sg_request'.success
    /\ sg_request'.account # Missing
    /\ sg_request'.account # <<>>

\* the goal, one account and the transactions after a contribution of a
C13_contributed(account, a) ==
    /\ goal_current_amount' = goal_current_amount + a
    /\ sg_balance' = [sg_balance EXCEPT ![account] = @ - a]
    /\ sg_transactions' =
          Append(sg_transactions,
                 [account |-> account, amount |-> a, transaction_type |-> "expense"])

\* the amount of a request is missing, not a number or not above zero
C13_bad_amount ==
    /\ sg_request'.n # sg_request.n
    /\ sg_request'.method = "POST"
    /\ \/ sg_request'.amount \in { Missing, <<>> }
       \/ sg_request'.amount \notin { <<"5","0">>, <<"7">> }

C13_nothing_changed ==
    UNCHANGED <<goal_current_amount, sg_balance, sg_transactions>>

\* C13 as stated: a successful request made with an account id has added a
\* to the goal, taken a from that account and recorded one expense of a
\* against it; a request with a bad amount changes nothing.
C13_ContributionWithAnyAccountId ==
    [][ /\ C13_success_with_account =>
              \E account \in UserAccounts \cup { 3 } :
                  \E a \in { 7, 50 } :
                      /\ sg_request'.amount = (IF a = 7 THEN <<"7">> ELSE <<"5","0">>)
                      /\ C13_contributed(account, a)
        /\ C13_bad_amount => C13_nothing_changed ]_vars_sg

\* C13, amended: the first part holds of a successful request whose account
\* id names an account of the user; a successful request whose account id
\* names no account of the user has added a to the goal and changed no
\* balance and no transaction.
C13_ContributionWithAccountOfUser ==
    [][ /\ C13_success_with_account =>
              LET a == IF sg_request'.amount = <<"7">> THEN 7 ELSE 50
              IN /\ sg_request'.amount \in { <<"7">>, <<"5","0">> }
                 /\ IF sg_request'.account \in { <<"1">>, <<"2">> }
                    THEN C13_contributed(
                             IF sg_request'.account = <<"1">> THEN 1 ELSE 2, a)
                    ELSE /\ goal_current_amount' = goal_current_amount + a
                         /\ UNCHANGED <<sg_balance, sg_transactions>>
        /\ C13_bad_amount => C13_nothing_changed ]_vars_sg

\* A contribution of 50 from account 2 after one with a bad amount.
C13_Witness ==
    /\ sg_request.n = 2
    /\ sg_request.success
    /\ sg_request.account = <<"2">>
    /\ sg_request.amount = <<"5","0">>
    /\ sg_balance[2] = 50
    /\ Len(sg_transactions) = 1


(***************************************************************************)
(* update_anomaly_status: what is stored and what is reported afterwards   *)
(***************************************************************************)
\* the last request was a successful update of a stored anomaly to 'reviewed'
C14_updated_to_reviewed ==
    /\ sa_response.handler = "update_anomaly_status"
    /\ sa_response.success
    /\ sa_response.status = "reviewed"
    /\ sa_response.id \in DOMAIN sa_records

\* an update with a status that is neither 'reviewed' nor 'ignored' is
\* rejected and changes nothing
C14_rejects_other_statuses ==
    (/\ sa_response'.handler = "update_anomaly_status"
     /\ sa_response'.status \notin { "reviewed", "ignored" })
        => /\ ~sa_response'.success
           /\ UNCHANGED <<sa_records, enable_ai_insights>>

\* C14: after a successful update_anomaly_status to 'reviewed' the row of
\* the anomaly is stored as reviewed, and get_anomaly_detail and
\* anomaly_detection report it as reviewed when they come next; an update
\* with any status other than 'reviewed' and 'ignored' is rejected and
\* changes nothing.
C14_UpdateStoresReviewed ==
    [][ /\ (/\ sa_response'.handler = "update_anomaly_status"
            /\ sa_response'.success
            /\ sa_response'.status = "reviewed"
            /\ sa_response'.id \in DOMAIN sa_records')
               => sa_records'[sa_response'.id].is_verified
        /\ (/\ C14_updated_to_reviewed
            /\ sa_response'.handler = "get_anomaly_detail"
            /\ sa_response'.id = sa_response.id)
               => sa_response'.status = "Reviewed"
        /\ (/\ C14_updated_to_reviewed
            /\ sa_response'.handler = "anomaly_detection")
               => \A i \in DOMAIN sa_response'.anomalies :
                      sa_response'.anomalies[i].id = sa_response.id
                          => sa_response'.anomalies[i].status = "reviewed"
        /\ C14_rejects_other_statuses ]_vars_sa

(***************************************************************************)
(* SpendingAnomaly: the rows of one transaction                            *)
(***************************************************************************)
\* C18: after any sequence of anomaly_detection, mark_anomaly_reviewed and
\* ignore_similar_anomalies requests every transaction has at most one row
\* of SpendingAnomaly.
C18_OneRecordPerTransaction ==
    \A tx \in TxIds : Cardinality(existing_of(sa_records, tx)) <= 1


(***************************************************************************)
(* TransactionCategorizer.train: the labels it trains on                   *)
(***************************************************************************)
\* C15: no transaction whose category was assigned automatically
\* (ai_categorized = True) is among the transactions a model was fitted on.
C15_NoAiLabelsInTraining ==
    tr_call.ret = "True" =>
        \A i \in DOMAIN tr_call.transactions :
            ~tr_call.transactions[i].ai_categorized

(***************************************************************************)
(* TransactionCategorizer.train: force_retrain                             *)
(***************************************************************************)
\* a step is a call of train
C16_called == tr_call'.n # tr_call.n

\* the call fitted a new model on the labels given and wrote it to the file
C16_fitted_and_saved ==
    /\ tr_call'.ret = "True"
    /\ tr_self'.model \in Models(labels_of(tr_call'.transactions))
    /\ model_file' =
          SavedModel(tr_self'.model, categories_of(labels_of(tr_call'.transactions)))

\* the call neither fitted a model nor wrote the file; an object without
\* a model has the model of a readable file afterwards
C16_kept ==
    /\ model_file' = tr_call'.file
    /\ tr_call'.ret = "None"
    /\ tr_self' =
          IF tr_call'.self.model = NoModel /\ tr_call'.file.kind = "Saved"
          THEN [model |-> tr_call'.file.model, categories |-> tr_call'.file.categories]
          ELSE tr_call'.self

C16_without_force ==
    (/\ C16_called
     /\ ~tr_call'.force_retrain
     /\ (tr_call'.self.model # NoModel \/ tr_call'.file # NoFile))
        => C16_kept

C16_forced_with_enough ==
    /\ C16_called
    /\ tr_call'.force_retrain
    /\ labelled_count(tr_call'.transactions) >= min_samples

C17_same_name(a, b) ==
    /\ Len(a) = Len(b)
    /\ \A i \in DOMAIN a : lower(a[i]) = lower(b[i])

C17_no_duplicates ==
    \A i, j \in DOMAIN category_table :
        (/\ i # j
         /\ category_table[i].user = category_table[j].user)
            => ~C17_same_name(category_table[i].name, category_table[j].name)

\* the request of a step would give its user two categories of one name
C17_would_duplicate ==
    \E i \in DOMAIN category_table :
        /\ category_table[i].user = ct_request'.user
        /\ ct_request'.name \notin { Missing }
        /\ C17_same_name(category_table[i].name, ct_request'.name)
        /\ IF ct_request'.handler = "category_edit"
           THEN /\ i # ct_request'.id
                /\ ct_request'.id \in DOMAIN category_table
                /\ category_table[ct_request'.id].user = ct_request'.user
           ELSE TRUE

C17_bad_request ==
    \/ C17_would_duplicate
    \/ ct_request'.name \in { Missing, <<>> }
    \/ ct_request'.type \notin { "expense", "income" }

\* C17: no user ever owns two categories whose names are equal ignoring
\* case, and a request that would produce such a pair, or has an empty name
\* or a type other than 'expense' and 'income', returns success False and
\* leaves every category as it was.
C17_NoDuplicateNames ==
    /\ []C17_no_duplicates
    /\ [][ C17_bad_request =>
              /\ ~ct_request'.success
              /\ category_table' = category_table ]_vars_ct

\* alice, who has 'U' and 'B', was refused the renaming of 'B' to 'u'.
C17_Witness ==
    /\ ct_request.handler = "category_edit"
    /\ ~ct_request.success
    /\ ct_request.name = << "u" >>
    /\ ct_request.type = "income"
    /\ ct_request.id \in DOMAIN category_table
    /\ category_table[ct_request.id].user = "alice"
    /\ category_table[ct_request.id].name = << "B" >>
    /\ \E i \in DOMAIN category_table :
          /\ category_table[i].user = "alice"
          /\ category_table[i].name = << "U" >>

====
